---- MODULE Spec2Model ----
(***************************************************************************)
(* Portfolio risk analytics and alert engine (yuksew/trader).              *)
(*                                                                         *)
(* Numbers.  The Python code works on floats; the model works on exact     *)
(* integers in fixed point:                                                *)
(*   - prices, shares and cost bases are integers (currency units);        *)
(*   - RiskMetrics fields are integers in units of 1e-4 (the code rounds   *)
(*     every field to 4 decimals, risk.py:383-393);                        *)
(*   - health totals and sub-scores are integers in units of 0.01 (the     *)
(*     code rounds them to 2 decimals, health.py:201, 209-215);            *)
(*   - a threshold comparison  x / y <= c  is evaluated by cross           *)
(*     multiplication, which agrees with the float comparison whenever x   *)
(*     and y are exactly representable (division is correctly rounded and  *)
(*     the literal c is the double nearest to c);                          *)
(*   - the float NaN is the marker NaN: arithmetic on it yields NaN and    *)
(*     every ordering comparison with it is false (FLt, FGe).              *)
(***************************************************************************)
EXTENDS Integers, Sequences, FiniteSets, TLC

NONE == "None"

\* float('nan'), which pandas returns for the correlation of two series with
\* fewer than two common observations or with zero variance
NaN == -999999999

IsNaN(x) == x = NaN

\* a < b and a >= b on floats
FLt(a, b) == ~IsNaN(a) /\ ~IsNaN(b) /\ a < b

FGe(a, b) == ~IsNaN(a) /\ ~IsNaN(b) /\ a >= b

\* ------------------------------------------------------------------------
\* Generic sequence helpers
\* ------------------------------------------------------------------------
Last(s) == s[Len(s)]

LastN(s, n) == IF Len(s) <= n THEN s ELSE SubSeq(s, Len(s) - n + 1, Len(s))

RECURSIVE Flatten(_)
Flatten(ss) == IF ss = <<>> THEN <<>> ELSE Head(ss) \o Flatten(Tail(ss))

RECURSIVE SumSeq(_)
SumSeq(s) == IF s = <<>> THEN 0 ELSE Head(s) + SumSeq(Tail(s))

Count(s, Test(_)) == Len(SelectSeq(s, Test))

Reverse(s) == [i \in 1..Len(s) |-> s[Len(s) + 1 - i]]

Abs(x) == IF x < 0 THEN -x ELSE x

Clip(x, lo, hi) == IF x < lo THEN lo ELSE IF x > hi THEN hi ELSE x

\* round(num/den) to the nearest integer, ties to the even one (Python's
\* round(); den > 0)
RoundHalfEven(num, den) ==
    LET q == num \div den
        r == num % den
    IN  IF 2 * r < den THEN q
        ELSE IF 2 * r > den THEN q + 1
        ELSE IF q % 2 = 0 THEN q ELSE q + 1

\* ------------------------------------------------------------------------
\* Price history provider (src/data/fetcher.py is not part of the sources;
\* modelled from the specification: an ordered series of daily closes over
\* the requested lookback window, possibly empty or short).
\* A provider state px maps every symbol to its full series of daily closes.
\* ------------------------------------------------------------------------
Window5d == 5

fetch_price_history(px, ticker, period) ==
    IF period = "5d" THEN LastN(px[ticker], Window5d) ELSE px[ticker]

\* fundamentals snapshot: info maps a ticker to its sector, to "NoSector"
\* when the snapshot has no sector field, or to NONE when there is no snapshot
fetch_stock_info(info, ticker) == info[ticker]

\* ------------------------------------------------------------------------
\* Risk metrics (src/strategy/risk.py)
\* ------------------------------------------------------------------------
\* weights of calculate_risk_metrics: a dict ticker -> close * shares, built
\* in holdings order; a repeated ticker overwrites its earlier value and keeps
\* its first position.  A dict is modelled as a sequence of [k, v] pairs.
DictKeys(d) == [i \in 1..Len(d) |-> d[i].k]

DictHas(d, key) == \E i \in 1..Len(d) : d[i].k = key

DictGet(d, key, default) ==
    IF DictHas(d, key)
    THEN d[CHOOSE i \in 1..Len(d) : d[i].k = key].v
    ELSE default

DictPut(d, key, val) ==
    IF DictHas(d, key)
    THEN [i \in 1..Len(d) |-> IF d[i].k = key THEN [k |-> key, v |-> val] ELSE d[i]]
    ELSE Append(d, [k |-> key, v |-> val])

DictValues(d) == [i \in 1..Len(d) |-> d[i].v]

RECURSIVE risk_weights(_, _, _)
risk_weights(holdings, px, acc) ==
    IF holdings = <<>> THEN acc
    ELSE LET h == Head(holdings)
             df == fetch_price_history(px, h.ticker, "1y")
         IN  IF df = <<>>
             THEN risk_weights(Tail(holdings), px, acc)
             ELSE risk_weights(Tail(holdings), px,
                               DictPut(acc, h.ticker, Last(df) * h.shares))

\* round(num / den, 4) in units of 1e-4 for 0 <= num, den > 0, by long
\* division one decimal digit at a time (keeps the intermediate values small)
RECURSIVE decimal_digits(_, _, _, _)
decimal_digits(r, den, k, acc) ==
    IF k = 0 THEN <<acc, r>>
    ELSE decimal_digits((r * 10) % den, den, k - 1, acc * 10 + ((r * 10) \div den))

Round4(num, den) ==
    LET qr == decimal_digits(num % den, den, 4, num \div den)
    IN  IF 2 * qr[2] < den THEN qr[1]
        ELSE IF 2 * qr[2] > den THEN qr[1] + 1
        ELSE IF qr[1] % 2 = 0 THEN qr[1] ELSE qr[1] + 1

\* the squares summed without the division by the total
calculate_hhi_unnormalized(weights) ==
    IF weights = <<>> THEN [num |-> 0, den |-> 1]
    ELSE LET total == SumSeq(DictValues(weights))
         IN  IF total = 0 THEN [num |-> 0, den |-> 1]
             ELSE [num |-> SumSeq([i \in 1..Len(weights) |-> weights[i].v * weights[i].v]),
                   den |-> 1]

\* HHI of a weight dict as the exact fraction num / den:
\* sum((w/total)^2) = sum(w^2) / total^2
calculate_hhi(weights) ==
    IF weights = <<>> THEN [num |-> 0, den |-> 1]
    ELSE LET total == SumSeq(DictValues(weights))
         IN  IF total = 0 THEN [num |-> 0, den |-> 1]
             ELSE [num |-> SumSeq([i \in 1..Len(weights) |-> weights[i].v * weights[i].v]),
                   den |-> total * total]

\* round(hhi, 4), in units of 1e-4
rounded_hhi(weights) ==
    LET hhi == calculate_hhi(weights) IN Round4(hhi.num, hhi.den)

\* _calc_portfolio_returns: the tickers that contribute a return series (at
\* least two rows) and their weights close * shares, as a dict in holdings
\* order
RECURSIVE calc_portfolio_returns(_, _, _)
calc_portfolio_returns(holdings, px, acc) ==
    IF holdings = <<>> THEN acc
    ELSE LET h == Head(holdings)
             df == fetch_price_history(px, h.ticker, "1y")
         IN  IF Len(df) < 2
             THEN calc_portfolio_returns(Tail(holdings), px, acc)
             ELSE calc_portfolio_returns(Tail(holdings), px,
                                         DictPut(acc, h.ticker, Last(df) * h.shares))

\* a return series (pct_change of the closes) on which a correlation is not
\* defined: fewer than two returns, or constant closes
degenerate_returns(df) == Len(df) < 3 \/ \A i \in 1..Len(df) : df[i] = df[1]

\* calculate_risk_metrics.  The statistics of a non-degenerate return series
\* (standard deviation, drawdown, Sharpe ratio, VaR, mean correlation) need
\* real arithmetic; they are taken from `stats`, the values of those
\* statistics for the series the provider currently serves.  The guards of the
\* code that replace them by 0 on missing data are modelled, and so is the
\* NaN of df.corr() when one of the series is degenerate.
calculate_risk_metrics(holdings, px, stats) ==
    LET rets == calc_portfolio_returns(holdings, px, <<>>)
        nocorr == \E i \in 1..Len(rets) :
                      degenerate_returns(fetch_price_history(px, rets[i].k, "1y"))
        w == risk_weights(holdings, px, <<>>)
        tv == SumSeq(DictValues(w))
        norm == IF tv > 0 THEN w ELSE <<>>
        noseries == SumSeq(DictValues(rets)) = 0
    IN  [portfolio_volatility |-> IF noseries THEN 0 ELSE stats.vol,
         max_drawdown |-> IF noseries THEN 0 ELSE stats.mdd,
         sharpe_ratio |-> IF noseries THEN 0 ELSE stats.sharpe,
         hhi |-> rounded_hhi(norm),
         var_95 |-> IF noseries THEN 0 ELSE stats.var_95,
         avg_correlation |-> IF Len(rets) < 2 THEN 0
                             ELSE IF nocorr THEN NaN
                             ELSE stats.corr]

MARKET_INDEX_JP == "^N225"
MARKET_INDEX_US == "^GSPC"

\* ticker.endswith(".T"), over the tickers of the model
endswith_T(ticker) == ticker = "7203.T"

\* risk.py:361-366: without a market_ticker argument the index is chosen from
\* the first holding
default_market_ticker(holdings) ==
    LET first_ticker == IF holdings # <<>> THEN holdings[1].ticker ELSE ""
    IN  IF endswith_T(first_ticker) THEN MARKET_INDEX_JP ELSE MARKET_INDEX_US

\* risk.py:368-376: the betas of calculate_risk_metrics, each ticker that has
\* a return series with the index its beta is computed against
beta_markets(holdings, px) ==
    LET rets == calc_portfolio_returns(holdings, px, <<>>)
        market_ticker == default_market_ticker(holdings)
    IN  [i \in 1..Len(rets) |-> [k |-> rets[i].k, v |-> market_ticker]]

\* ------------------------------------------------------------------------
\* Health score (src/strategy/health.py)
\* ------------------------------------------------------------------------
HHI_GOOD == 1000
HHI_BAD == 5000
VOL_GOOD == 1500
VOL_BAD == 4000
MDD_GOOD == 500
MDD_BAD == 3000
CORR_GOOD == 3000
CORR_BAD == 8000
LOSS_GOOD == 0
LOSS_BAD == 5000
WEIGHT_DIVERSITY == 30
WEIGHT_VOLATILITY == 25
WEIGHT_DRAWDOWN == 20
WEIGHT_CORRELATION == 15
WEIGHT_UNREALIZED_LOSS == 10
LEVEL_GREEN == 70
LEVEL_YELLOW == 40

\* Sub-scores are rationals; all five share the denominator ScoreDen(n) for a
\* portfolio of n holdings, so a sub-score s is held as the integer s * ScoreDen.
ScoreDen(n) == 200 * n

\* _score_inverse(value, good, bad) for value = vnum / vden (in units of 1e-4),
\* as score * den.  The division is exact for the thresholds above.
\* np.clip keeps NaN.
score_inverse(vnum, vden, good, bad, den) ==
    IF bad = good THEN 50 * den
    ELSE IF IsNaN(vnum) THEN NaN
    ELSE Clip(((bad * vden - vnum) * (100 * den)) \div ((bad - good) * vden), 0, 100 * den)

\* _determine_level: score in units of 0.01
determine_level(score) ==
    IF FGe(score, LEVEL_GREEN * 100) THEN "green"
    ELSE IF FGe(score, LEVEL_YELLOW * 100) THEN "yellow"
    ELSE "red"

\* _calc_unrealized_loss_ratio: <<loss_count, total>>, the ratio being
\* loss_count / total with total = len(holdings)
calc_unrealized_loss_ratio(holdings, px) ==
    LET InLoss(h) ==
            /\ h.buy_price > 0
            /\ fetch_price_history(px, h.ticker, "5d") # <<>>
            /\ Last(fetch_price_history(px, h.ticker, "5d")) - h.buy_price < 0
    IN  <<Count(holdings, InLoss), Len(holdings)>>

\* calculate_health_score(holdings, risk_metrics=rm).  An optional argument is
\* a sequence: <<>> for None, <<x>> for the value x; rm = <<>> computes the
\* metrics internally
calculate_health_score(holdings, rm, px, stats) ==
    IF holdings = <<>>
    THEN [total |-> 0, level |-> "red", breakdown |-> <<>>]
    ELSE LET risk_metrics == IF rm = <<>>
                             THEN calculate_risk_metrics(holdings, px, stats)
                             ELSE rm[1]
             den == ScoreDen(Len(holdings))
             diversity == score_inverse(risk_metrics.hhi, 1, HHI_GOOD, HHI_BAD, den)
             volatility == score_inverse(risk_metrics.portfolio_volatility, 1,
                                         VOL_GOOD, VOL_BAD, den)
             drawdown == score_inverse(risk_metrics.max_drawdown, 1, MDD_GOOD, MDD_BAD, den)
             correlation == score_inverse(risk_metrics.avg_correlation, 1,
                                          CORR_GOOD, CORR_BAD, den)
             lr == calc_unrealized_loss_ratio(holdings, px)
             loss == score_inverse(lr[1] * 10000, lr[2], LOSS_GOOD, LOSS_BAD, den)
             subs == <<diversity, volatility, drawdown, correlation, loss>>
             \* weighted sum, as total * 100 * den
             wsum == IF \E k \in 1..5 : IsNaN(subs[k]) THEN NaN
                     ELSE diversity * WEIGHT_DIVERSITY + volatility * WEIGHT_VOLATILITY
                          + drawdown * WEIGHT_DRAWDOWN + correlation * WEIGHT_CORRELATION
                          + loss * WEIGHT_UNREALIZED_LOSS
             total == IF IsNaN(wsum) THEN NaN
                      ELSE RoundHalfEven(Clip(wsum, 0, 10000 * den), den)
         IN  [total |-> total,
              level |-> determine_level(total),
              breakdown |-> [k \in 1..5 |-> IF IsNaN(subs[k]) THEN NaN
                                            ELSE RoundHalfEven(subs[k] * 100, den)]]

\* ------------------------------------------------------------------------
\* Alert rules (src/strategy/alerts.py)
\* ------------------------------------------------------------------------
DAILY_DROP_THRESHOLD == -5
LOSS_LEVEL2 == -10
LOSS_LEVEL4 == -15
HEALTH_DANGER == 40
HEALTH_CAUTION == 70
SINGLE_STOCK_LIMIT == 30
SINGLE_SECTOR_LIMIT == 50
INDEX_DROP_THRESHOLD == -3
MARKET_INDICES == <<"^N225", "^GSPC">>
MAJORITY_DROP_RATIO == 50
LOSS_STALE_DAYS == 30

\* An Alert: rule id, level, ticker (NONE = portfolio-wide) and the variable
\* part of its message (the sector of W-07, the index of W-08)
Alert(type, level, ticker, detail) ==
    [alert_type |-> type, level |-> level, ticker |-> ticker, detail |-> detail]

\* the comparison of line 94 made strict
w01_one_strict(h, px) ==
    LET df == fetch_price_history(px, h.ticker, "5d")
    IN  IF Len(df) < 2 THEN <<>>
        ELSE IF df[Len(df) - 1] = 0 THEN <<>>
        ELSE IF (Last(df) - df[Len(df) - 1]) * 100 < DAILY_DROP_THRESHOLD * df[Len(df) - 1]
             THEN <<Alert("W-01", 2, h.ticker, "")>>
             ELSE <<>>

\* prev_close == 0 is skipped; daily_return <= -5%
w01_one(h, px) ==
    LET df == fetch_price_history(px, h.ticker, "5d")
    IN  IF Len(df) < 2 THEN <<>>
        ELSE IF df[Len(df) - 1] = 0 THEN <<>>
        ELSE IF (Last(df) - df[Len(df) - 1]) * 100 <= DAILY_DROP_THRESHOLD * df[Len(df) - 1]
             THEN <<Alert("W-01", 2, h.ticker, "")>>
             ELSE <<>>

check_w01_daily_drop(holdings, px) ==
    Flatten([i \in 1..Len(holdings) |-> w01_one(holdings[i], px)])

w02_w03_one_mut(h, px) ==
    LET df == fetch_price_history(px, h.ticker, "5d")
    IN  IF h.buy_price <= 0 THEN <<>>
        ELSE IF df = <<>> THEN <<>>
        ELSE IF (Last(df) - h.buy_price) * 100 < LOSS_LEVEL4 * h.buy_price
             THEN <<Alert("W-03", 4, h.ticker, "")>>
        ELSE IF (Last(df) - h.buy_price) * 100 < LOSS_LEVEL2 * h.buy_price
             THEN <<Alert("W-02", 3, h.ticker, "")>>
        ELSE <<>>

\* the loop body without the `if df.empty: continue` of line 123: a missing
\* price read as a close of 0
w02_w03_one_noskip(h, px) ==
    LET df == fetch_price_history(px, h.ticker, "5d")
        current_price == IF df = <<>> THEN 0 ELSE Last(df)
    IN  IF h.buy_price <= 0 THEN <<>>
        ELSE IF (current_price - h.buy_price) * 100 <= LOSS_LEVEL4 * h.buy_price
             THEN <<Alert("W-03", 4, h.ticker, "")>>
        ELSE IF (current_price - h.buy_price) * 100 <= LOSS_LEVEL2 * h.buy_price
             THEN <<Alert("W-02", 3, h.ticker, "")>>
        ELSE <<>>

\* one iteration of the loop of _check_w02_w03_loss_from_buy
w02_w03_one(h, px) ==
    LET df == fetch_price_history(px, h.ticker, "5d")
    IN  IF h.buy_price <= 0 THEN <<>>
        ELSE IF df = <<>> THEN <<>>
        ELSE IF (Last(df) - h.buy_price) * 100 <= LOSS_LEVEL4 * h.buy_price
             THEN <<Alert("W-03", 4, h.ticker, "")>>
        ELSE IF (Last(df) - h.buy_price) * 100 <= LOSS_LEVEL2 * h.buy_price
             THEN <<Alert("W-02", 3, h.ticker, "")>>
        ELSE <<>>

check_w02_w03_loss_from_buy(holdings, px) ==
    Flatten([i \in 1..Len(holdings) |-> w02_w03_one(holdings[i], px)])

check_w04_w05_health(health_score) ==
    IF FLt(health_score.total, HEALTH_DANGER * 100)
    THEN <<Alert("W-04", 4, NONE, "")>>
    ELSE IF FLt(health_score.total, HEALTH_CAUTION * 100)
    THEN <<Alert("W-05", 2, NONE, "")>>
    ELSE <<>>

\* _calc_weights: dict ticker -> close * shares in holdings order
RECURSIVE calc_weights_from(_, _, _)
calc_weights_from(holdings, px, acc) ==
    IF holdings = <<>> THEN acc
    ELSE LET h == Head(holdings)
             df == fetch_price_history(px, h.ticker, "5d")
         IN  IF df = <<>>
             THEN calc_weights_from(Tail(holdings), px, acc)
             ELSE calc_weights_from(Tail(holdings), px,
                                    DictPut(acc, h.ticker, Last(df) * h.shares))

calc_weights(holdings, px) == calc_weights_from(holdings, px, <<>>)

check_w06_concentration(holdings, px) ==
    LET weights == calc_weights(holdings, px)
        total == SumSeq(DictValues(weights))
        One(e) == IF e.v * 100 > SINGLE_STOCK_LIMIT * total
                  THEN <<Alert("W-06", 3, e.k, "")>> ELSE <<>>
    IN  IF total = 0 THEN <<>>
        ELSE Flatten([i \in 1..Len(weights) |-> One(weights[i])])

\* info.get("sector", "Unknown") if info else "Unknown"
sector_of(info, ticker) ==
    LET i == fetch_stock_info(info, ticker)
    IN  IF i = NONE \/ i = "NoSector" THEN "Unknown" ELSE i

RECURSIVE sector_weights_from(_, _, _, _)
sector_weights_from(holdings, weights, info, acc) ==
    IF holdings = <<>> THEN acc
    ELSE LET h == Head(holdings)
             sector == sector_of(info, h.ticker)
             value == DictGet(weights, h.ticker, 0)
         IN  sector_weights_from(Tail(holdings), weights, info,
                                 DictPut(acc, sector, DictGet(acc, sector, 0) + value))

check_w07_sector_concentration(holdings, px, info) ==
    LET weights == calc_weights(holdings, px)
        total == SumSeq(DictValues(weights))
        sector_weights == sector_weights_from(holdings, weights, info, <<>>)
        One(e) == IF e.v * 100 > SINGLE_SECTOR_LIMIT * total
                  THEN <<Alert("W-07", 3, NONE, e.k)>> ELSE <<>>
    IN  IF total = 0 THEN <<>>
        ELSE Flatten([i \in 1..Len(sector_weights) |-> One(sector_weights[i])])

w08_one(index_ticker, px) ==
    LET df == fetch_price_history(px, index_ticker, "5d")
    IN  IF Len(df) < 2 THEN <<>>
        ELSE IF df[Len(df) - 1] = 0 THEN <<>>
        ELSE IF (Last(df) - df[Len(df) - 1]) * 100 <= INDEX_DROP_THRESHOLD * df[Len(df) - 1]
             THEN <<Alert("W-08", 3, NONE, index_ticker)>>
             ELSE <<>>

check_w08_market_crash(px) ==
    Flatten([i \in 1..Len(MARKET_INDICES) |-> w08_one(MARKET_INDICES[i], px)])

check_w09_majority_drop(holdings, px) ==
    LET Priced(h) == Len(fetch_price_history(px, h.ticker, "5d")) >= 2
        Dropped(h) ==
            LET df == fetch_price_history(px, h.ticker, "5d")
            IN  Len(df) >= 2 /\ df[Len(df) - 1] > 0 /\ Last(df) < df[Len(df) - 1]
        total == Count(holdings, Priced)
        drop_count == Count(holdings, Dropped)
    IN  IF holdings = <<>> THEN <<>>
        ELSE IF total = 0 THEN <<>>
        ELSE IF drop_count * 100 >= MAJORITY_DROP_RATIO * total
             THEN <<Alert("W-09", 3, NONE, "")>>
             ELSE <<>>

\* the backward walk of _check_w10_stale_loss over prices[1..i]
RECURSIVE loss_days_from(_, _, _)
loss_days_from(prices, i, buy_price) ==
    IF i < 1 THEN 0
    ELSE IF prices[i] < buy_price THEN 1 + loss_days_from(prices, i - 1, buy_price)
    ELSE 0

\* the streak compared strictly with the limit
w10_one_strict(h, px) ==
    LET df == fetch_price_history(px, h.ticker, "3mo")
    IN  IF h.buy_price <= 0 THEN <<>>
        ELSE IF df = <<>> THEN <<>>
        ELSE IF Last(df) >= h.buy_price THEN <<>>
        ELSE IF loss_days_from(df, Len(df), h.buy_price) > LOSS_STALE_DAYS
             THEN <<Alert("W-10", 2, h.ticker, "")>>
             ELSE <<>>

w10_one(h, px) ==
    LET df == fetch_price_history(px, h.ticker, "3mo")
    IN  IF h.buy_price <= 0 THEN <<>>
        ELSE IF df = <<>> THEN <<>>
        ELSE IF Last(df) >= h.buy_price THEN <<>>
        ELSE IF loss_days_from(df, Len(df), h.buy_price) >= LOSS_STALE_DAYS
             THEN <<Alert("W-10", 2, h.ticker, "")>>
             ELSE <<>>

check_w10_stale_loss(holdings, px) ==
    Flatten([i \in 1..Len(holdings) |-> w10_one(holdings[i], px)])

\* alerts.sort(key=lambda a: a.level, reverse=True): a stable sort, alerts of
\* equal level keep their order.  Insertion of a after the last element whose
\* level is >= a.level.
RECURSIVE insert_by_level(_, _)
insert_by_level(sorted, a) ==
    IF sorted = <<>> THEN <<a>>
    ELSE IF Head(sorted).level >= a.level
         THEN <<Head(sorted)>> \o insert_by_level(Tail(sorted), a)
         ELSE <<a>> \o sorted

RECURSIVE sort_from(_, _)
sort_from(alerts, acc) ==
    IF alerts = <<>> THEN acc
    ELSE sort_from(Tail(alerts), insert_by_level(acc, Head(alerts)))

\* a sort that is not stable: ascending, then reversed
RECURSIVE insert_by_level_asc(_, _)
insert_by_level_asc(sorted, a) ==
    IF sorted = <<>> THEN <<a>>
    ELSE IF Head(sorted).level <= a.level
         THEN <<Head(sorted)>> \o insert_by_level_asc(Tail(sorted), a)
         ELSE <<a>> \o sorted

RECURSIVE sort_asc_from(_, _)
sort_asc_from(alerts, acc) ==
    IF alerts = <<>> THEN acc
    ELSE sort_asc_from(Tail(alerts), insert_by_level_asc(acc, Head(alerts)))

sort_by_level_desc_mut(alerts) == Reverse(sort_asc_from(alerts, <<>>))

sort_by_level_desc(alerts) == sort_from(alerts, <<>>)

\* the alerts of all rules in evaluation order, before the sort
raw_alerts(holdings, px, info, health_score) ==
    check_w01_daily_drop(holdings, px)
    \o check_w02_w03_loss_from_buy(holdings, px)
    \o check_w04_w05_health(health_score)
    \o check_w06_concentration(holdings, px)
    \o check_w07_sector_concentration(holdings, px, info)
    \o check_w08_market_crash(px)
    \o check_w09_majority_drop(holdings, px)
    \o check_w10_stale_loss(holdings, px)

\* generate_alerts(holdings, health_score=hs); hs = <<>> (None) computes the
\* health score internally
generate_alerts(holdings, hs, px, info, stats) ==
    LET health_score == IF hs = <<>>
                        THEN calculate_health_score(holdings, <<>>, px, stats)
                        ELSE hs[1]
    IN  sort_by_level_desc(raw_alerts(holdings, px, info, health_score))

\* ------------------------------------------------------------------------
\* State
\* ------------------------------------------------------------------------
VARIABLES
    \* one call of generate_alerts
    arg_holdings,     \* the holdings list passed in
    arg_health,       \* the health_score argument: <<a HealthScore>> or <<>>
    provider,         \* closes served by the price history provider
    fundamentals,     \* sectors served by the fundamentals lookup
    result,           \* the list generate_alerts returned
    returned,         \* whether the call has returned
    \* the database (one sqlite3 connection shared by all coroutines)
    holdings_tbl,     \* table holdings, in rowid order
    risk_metrics,     \* table risk_metrics, in rowid order
    alerts,           \* table alerts, in rowid order
    signals,          \* table signals, in rowid order
    \* the environment of the daily check
    market,           \* index in Worlds of what the data provider serves now
    today,            \* datetime.utcnow().date(), as a day number
    \* the coroutines running run_daily_check
    proc,             \* per coroutine: position and locals
    nruns,            \* daily checks started so far
    nfaults,          \* exceptions raised so far inside daily checks
    nmoves,           \* changes of the provider's data so far
    moved,            \* whether the provider's data changed since the first run
    nreqs,            \* API requests served so far
    \* one evaluation of the health score and its read through the API
    arg_metrics,      \* the risk_metrics argument of calculate_health_score
    health,           \* <<the HealthScore returned>>, <<>> before the call
    response,         \* <<the body GET /portfolios/{id}/health returned>>, or <<>>
    \* one call of a function of src/strategy/risk.py or src/strategy/signals.py
    input,            \* the arguments of the call
    output,           \* <<the value returned>>, <<>> before the call
    \* one ticker followed day after day
    history,          \* the closes the provider has for the ticker, oldest first
    detections        \* per day seen so far, what the rules and detectors found

alertVars == <<arg_holdings, arg_health, provider, fundamentals, result, returned>>

dbVars == <<holdings_tbl, risk_metrics, alerts, signals>>

jobVars == <<market, today, proc, nruns, nfaults, nmoves, moved, nreqs>>

healthVars == <<arg_metrics, health, response>>

fnVars == <<input, output>>

dayVars == <<history, detections>>

vars == <<alertVars, dbVars, jobVars, healthVars, fnVars, dayVars>>

\* ------------------------------------------------------------------------
\* Inputs of the alert engine
\* ------------------------------------------------------------------------
MaxHoldings == 2

Tickers == {"7203.T", "AAPL"}

Symbols == Tickers \cup {"^N225", "^GSPC"}

Many(x, n) == [i \in 1..n |-> x]

\* close series of a ticker: none, one row, a 10% and a 5% daily drop, a close
\* 9.9% under 1000, a close 15% under 1200, a long run at 880
TickerSeries ==
    {<<>>, <<1000>>, <<1000, 900>>, <<1000, 950>>, <<900, 901>>, <<1010, 1020>>,
     Many(880, LOSS_STALE_DAYS)}

IndexSeries == {<<>>, <<1000, 1000>>, <<1000, 970>>}

Providers ==
    {[s \in Symbols |-> IF s = "7203.T" THEN a
                        ELSE IF s = "AAPL" THEN b
                        ELSE IF s = "^N225" THEN n ELSE g] :
        a \in TickerSeries, b \in TickerSeries, n \in IndexSeries,
        g \in {<<1000, 1000>>, <<1000, 970>>}}

Fundamentals ==
    {[t \in Tickers |-> "Technology"],
     [t \in Tickers |-> IF t = "AAPL" THEN "Technology" ELSE NONE]}

HoldingPool ==
    {[ticker |-> "7203.T", shares |-> 1, buy_price |-> 1000],
     [ticker |-> "7203.T", shares |-> 3, buy_price |-> 1200],
     [ticker |-> "7203.T", shares |-> 1, buy_price |-> 0],
     [ticker |-> "AAPL", shares |-> 1, buy_price |-> 1000],
     [ticker |-> "AAPL", shares |-> 2, buy_price |-> 1200]}

HoldingListsOf(pool, n) == UNION {[1..k -> pool] : k \in 0..n}

HoldingLists(n) == HoldingListsOf(HoldingPool, n)

HealthOf(total) == [total |-> total, level |-> determine_level(total), breakdown |-> <<>>]

HealthArgs == {<<HealthOf(t)>> : t \in {3999, 4000, 6999, 7000, NaN}}

\* statistics of the series served, for a health score computed inside
\* generate_alerts
CalmStats == [vol |-> 1200, mdd |-> 400, sharpe |-> 9000, var_95 |-> 150, corr |-> 2500]

\* ------------------------------------------------------------------------
\* Signal detection (src/strategy/signals.py), as the daily check uses it.
\* Which pattern a detector finds in a series is data of the provider state
\* (`patterns`); detect_signals keeps the detections of the tickers it is
\* given, high priority first.
\* ------------------------------------------------------------------------
DEFAULT_EXPIRY_DAYS == 7

PriorityOrder(p) == CASE p = "high" -> 0 [] p = "medium" -> 1 [] p = "low" -> 2 [] OTHER -> 99

detect_signals(all_tickers, patterns, now) ==
    LET found == SelectSeq(patterns, LAMBDA s : s.ticker \in all_tickers)
        stamped == [i \in 1..Len(found) |->
                        [ticker |-> found[i].ticker, signal_type |-> found[i].signal_type,
                         priority |-> found[i].priority,
                         expires_at |-> now + DEFAULT_EXPIRY_DAYS, created_at |-> now]]
    IN  SelectSeq(stamped, LAMBDA s : PriorityOrder(s.priority) = 0)
        \o SelectSeq(stamped, LAMBDA s : PriorityOrder(s.priority) = 1)
        \o SelectSeq(stamped, LAMBDA s : PriorityOrder(s.priority) = 2)

\* ------------------------------------------------------------------------
\* The daily check (src/api/scheduler.py) over the database
\* (src/api/database.py)
\* ------------------------------------------------------------------------
MaxRuns == 2
MaxFaults == 1
MaxDay == 1
MaxMoves == 1

Portfolios == {1, 2}

\* the coroutine that runs run_daily_check, for the cron job or for
\* POST /jobs/daily-check; the runs modelled follow one another
Procs == {"scheduler"}

RoughStats == [vol |-> 4000, mdd |-> 3000, sharpe |-> -2000, var_95 |-> 600, corr |-> 2500]

\* what the data provider can serve: closes, sectors, series statistics and
\* technical patterns
Worlds ==
    LET px == [s \in Symbols |-> <<1000, 1000>>]
        info == [t \in Tickers |-> "Technology"]
        pat == <<[ticker |-> "7203.T", signal_type |-> "volume_spike", priority |-> "high"]>>
    IN  <<[px |-> px, info |-> info, stats |-> CalmStats, patterns |-> pat],
          [px |-> px, info |-> info, stats |-> RoughStats, patterns |-> pat]>>

World == Worlds[market]

Watchlist == {}

InitialHoldings ==
    <<[portfolio_id |-> 1, ticker |-> "7203.T", shares |-> 1, buy_price |-> 1000],
      [portfolio_id |-> 2, ticker |-> "AAPL", shares |-> 2, buy_price |-> 1200]>>

\* SELECT ... FROM holdings WHERE portfolio_id = ?
holdings_of(tbl, portfolio_id) ==
    LET rows == SelectSeq(tbl, LAMBDA h : h.portfolio_id = portfolio_id)
    IN  [i \in 1..Len(rows) |->
            [ticker |-> rows[i].ticker, shares |-> rows[i].shares,
             buy_price |-> rows[i].buy_price]]

\* conn.commit(): every row written on the connection becomes durable
commit_rows(tbl) == [i \in 1..Len(tbl) |-> [tbl[i] EXCEPT !.committed = TRUE]]

\* INSERT OR REPLACE INTO risk_metrics (...): the table has no UNIQUE
\* constraint besides the autoincrement id, which the statement does not
\* give, so no row ever conflicts and the row is appended
insert_or_replace(tbl, row) == Append(tbl, row)

\* INSERT INTO alerts / signals
insert_row_dedup(tbl, row) ==
    IF \E i \in 1..Len(tbl) : [tbl[i] EXCEPT !.run = 0, !.committed = FALSE]
                              = [row EXCEPT !.run = 0, !.committed = FALSE]
    THEN tbl ELSE Append(tbl, row)

insert_row(tbl, row) == Append(tbl, row)

risk_row(portfolio_id, date, health_result, risk, run) ==
    [portfolio_id |-> portfolio_id, date |-> date, health_score |-> health_result.total,
     max_drawdown |-> risk.max_drawdown, portfolio_volatility |-> risk.portfolio_volatility,
     sharpe_ratio |-> risk.sharpe_ratio, hhi |-> risk.hhi, var_95 |-> risk.var_95,
     run |-> run, committed |-> FALSE]

alert_row(portfolio_id, a, now, run) ==
    [portfolio_id |-> portfolio_id, ticker |-> a.ticker, alert_type |-> a.alert_type,
     level |-> a.level, message |-> a.detail, is_read |-> 0, is_resolved |-> 0,
     resolved_at |-> <<>>, created_at |-> now, run |-> run, committed |-> FALSE]

signal_row(s, now, run) ==
    [ticker |-> s.ticker, signal_type |-> s.signal_type, priority |-> s.priority,
     is_valid |-> 1, expires_at |-> s.expires_at, created_at |-> now,
     run |-> run, committed |-> FALSE]

\* GET /portfolios/{id}/health (src/api/routers/risk.py): the rows the query
\* SELECT ... WHERE portfolio_id = ? ORDER BY date DESC LIMIT 1 may return
latest_rows(tbl, portfolio_id) ==
    {tbl[i] : i \in {j \in 1..Len(tbl) :
                        /\ tbl[j].portfolio_id = portfolio_id
                        /\ \A k \in 1..Len(tbl) :
                              tbl[k].portfolio_id = portfolio_id => tbl[k].date <= tbl[j].date}}

\* the response body built from the row; health_score in units of 0.01.
\* sqlite3 stores a NaN as NULL and reads it back as None, on which the
\* comparison score >= 70 raises TypeError
get_health(row) ==
    [health_score |-> row.health_score,
     level |-> IF IsNaN(row.health_score) THEN "TypeError"
               ELSE IF row.health_score >= 70 * 100 THEN "green"
               ELSE IF row.health_score >= 40 * 100 THEN "yellow"
               ELSE "red",
     breakdown |-> [max_drawdown |-> row.max_drawdown,
                    volatility |-> row.portfolio_volatility, hhi |-> row.hhi]]

\* GET /portfolios/{id}/risk-metrics?target_date=d: the rows the query
\* SELECT ... WHERE portfolio_id = ? AND date = ? may return to fetchone
\* (no ORDER BY)
get_risk_metrics(tbl, portfolio_id, target_date) ==
    {tbl[i] : i \in {j \in 1..Len(tbl) : /\ tbl[j].portfolio_id = portfolio_id
                                          /\ tbl[j].date = target_date}}

\* risk_holdings and alert_holdings record, per portfolio, the holdings the
\* risk block (scheduler.py:126) and the alert block (scheduler.py:162) read
IdleProc ==
    [pc |-> "idle", run |-> 0, queue |-> <<>>, pf |-> 0, holdings_data |-> <<>>,
     risk_result |-> <<>>, health_result |-> <<>>, todo |-> <<>>,
     outcome |-> [p \in Portfolios |-> "pending"],
     emitted |-> [p \in Portfolios |-> 0],
     fetch_failed |-> {},
     risk_holdings |-> [p \in Portfolios |-> <<>>],
     alert_holdings |-> [p \in Portfolios |-> <<>>],
     sig |-> "pending"]

\* where an exception of _run_portfolio_daily that nothing inside it catches
\* goes: the except Exception of run_daily_check (scheduler.py:79) logs it
\* and the loop goes on
portfolio_boundary_mut(pr) ==
    [pr EXCEPT !.pc = "done", !.outcome[pr.pf] = "failed", !.todo = <<>>]

portfolio_boundary(pr) ==
    [pr EXCEPT !.pc = "next", !.outcome[pr.pf] = "failed", !.todo = <<>>]

\* an exception inside the risk block is caught at scheduler.py:155 and the
\* function goes on with the alert block
risk_block_failed(pr) == [pr EXCEPT !.pc = "alert_read", !.outcome[pr.pf] = "failed"]

\* an exception inside the alert block is caught at scheduler.py:189 and the
\* function returns
alert_block_failed(pr) ==
    [pr EXCEPT !.pc = "next", !.outcome[pr.pf] = "failed", !.todo = <<>>]

\* the function returns normally
portfolio_done(pr) ==
    [pr EXCEPT !.pc = "next",
               !.outcome[pr.pf] = IF pr.outcome[pr.pf] = "pending" THEN "ok"
                                  ELSE pr.outcome[pr.pf]]

InitDb ==
    /\ holdings_tbl = InitialHoldings
    /\ risk_metrics = <<>>
    /\ alerts = <<>>
    /\ signals = <<>>

InitJob ==
    /\ market = 1
    /\ today = 0
    /\ proc = [self \in Procs |-> IdleProc]
    /\ nruns = 0
    /\ nfaults = 0
    /\ nmoves = 0
    /\ moved = FALSE
    /\ nreqs = 0

IdleHealth ==
    /\ arg_metrics = <<>>
    /\ health = <<>>
    /\ response = <<>>

\* the alert engine variables are not used by the daily check specification
IdleAlerts ==
    /\ arg_holdings = <<>>
    /\ arg_health = <<>>
    /\ provider = Worlds[1].px
    /\ fundamentals = Worlds[1].info
    /\ result = <<>>
    /\ returned = FALSE

IdleFn ==
    /\ input = <<>>
    /\ output = <<>>

IdleDay ==
    /\ history = <<>>
    /\ detections = <<>>

Init == InitDb /\ InitJob /\ IdleAlerts /\ IdleHealth /\ IdleFn /\ IdleDay

Raise == nfaults < MaxFaults /\ nfaults' = nfaults + 1

\* run_daily_check starts: SELECT id FROM portfolios
Start(self) ==
    /\ proc[self].pc \in {"idle", "done"}
    /\ nruns < MaxRuns
    /\ nruns' = nruns + 1
    /\ proc' = [proc EXCEPT ![self] = [IdleProc EXCEPT !.pc = "next", !.run = nruns + 1,
                                                       !.queue = <<1, 2>>]]
    /\ UNCHANGED <<fnVars, dayVars, alertVars, healthVars, nmoves, nreqs, dbVars, market, today, nfaults, moved>>

\* for pf in portfolios
NextPortfolio(self) ==
    /\ proc[self].pc = "next"
    /\ proc' = [proc EXCEPT ![self] =
                  IF proc[self].queue = <<>>
                  THEN [@ EXCEPT !.pc = "screening", !.pf = 0]
                  ELSE [@ EXCEPT !.pc = "tickers", !.pf = Head(proc[self].queue),
                                 !.queue = Tail(proc[self].queue)]]
    /\ UNCHANGED <<fnVars, dayVars, alertVars, healthVars, nmoves, nreqs, dbVars, market, today, nruns, nfaults, moved>>

\* scheduler.py:102-109
ReadTickers(self) ==
    /\ proc[self].pc = "tickers"
    /\ proc' = [proc EXCEPT ![self] =
                  IF holdings_of(holdings_tbl, proc[self].pf) = <<>>
                  THEN [@ EXCEPT !.pc = "next", !.outcome[proc[self].pf] = "empty"]
                  ELSE [@ EXCEPT !.pc = "fetch"]]
    /\ UNCHANGED <<fnVars, dayVars, alertVars, healthVars, nmoves, nreqs, dbVars, market, today, nruns, nfaults, moved>>

\* scheduler.py:112-119: the price refresh of every ticker; a missing fetcher
\* module (ImportError) is skipped and has the effect of a refresh; any other
\* exception of fetch_recent leaves _run_portfolio_daily (only ImportError is
\* caught at line 118)
PriceFetch(self) ==
    /\ proc[self].pc = "fetch"
    /\ \/ /\ proc' = [proc EXCEPT ![self].pc = "risk_read"]
          /\ UNCHANGED nfaults
       \/ /\ Raise
          /\ proc' = [proc EXCEPT ![self] =
                        [portfolio_boundary(proc[self]) EXCEPT
                            !.fetch_failed = @ \cup {proc[self].pf}]]
    /\ UNCHANGED <<fnVars, dayVars, alertVars, healthVars, nmoves, nreqs, dbVars, market, today, nruns, moved>>

\* scheduler.py:126-133
RiskRead(self) ==
    /\ proc[self].pc = "risk_read"
    /\ LET data == holdings_of(holdings_tbl, proc[self].pf)
       IN  proc' = [proc EXCEPT ![self].holdings_data = data,
                                ![self].risk_holdings[proc[self].pf] = data,
                                ![self].pc = IF data = <<>> THEN "alert_read" ELSE "risk_calc"]
    /\ UNCHANGED <<fnVars, dayVars, alertVars, healthVars, nmoves, nreqs, dbVars, market, today, nruns, nfaults, moved>>

\* scheduler.py:134
RiskCalc(self) ==
    /\ proc[self].pc = "risk_calc"
    /\ \/ /\ proc' = [proc EXCEPT
                        ![self].risk_result =
                            <<calculate_risk_metrics(proc[self].holdings_data,
                                                     World.px, World.stats)>>,
                        ![self].pc = "health_calc"]
          /\ UNCHANGED nfaults
       \/ /\ Raise
          /\ proc' = [proc EXCEPT ![self] = risk_block_failed(proc[self])]
    /\ UNCHANGED <<fnVars, dayVars, alertVars, healthVars, nmoves, nreqs, dbVars, market, today, nruns, moved>>

\* scheduler.py:135: calculate_health_score(holdings_data), without the
\* metrics just computed
HealthCalc(self) ==
    /\ proc[self].pc = "health_calc"
    /\ \/ /\ proc' = [proc EXCEPT
                        ![self].health_result =
                            <<calculate_health_score(proc[self].holdings_data, <<>>,
                                                     World.px, World.stats)>>,
                        ![self].pc = "risk_insert"]
          /\ UNCHANGED nfaults
       \/ /\ Raise
          /\ proc' = [proc EXCEPT ![self] = risk_block_failed(proc[self])]
    /\ UNCHANGED <<fnVars, dayVars, alertVars, healthVars, nmoves, nreqs, dbVars, market, today, nruns, moved>>

\* scheduler.py:136-151
RiskInsert(self) ==
    /\ proc[self].pc = "risk_insert"
    /\ \/ /\ risk_metrics' =
                insert_or_replace(risk_metrics,
                                  risk_row(proc[self].pf, today, proc[self].health_result[1],
                                           proc[self].risk_result[1], proc[self].run))
          /\ proc' = [proc EXCEPT ![self].pc = "risk_commit"]
          /\ UNCHANGED nfaults
       \/ /\ Raise
          /\ proc' = [proc EXCEPT ![self] = risk_block_failed(proc[self])]
          /\ UNCHANGED risk_metrics
    /\ UNCHANGED <<fnVars, dayVars, alertVars, healthVars, nmoves, nreqs, holdings_tbl, alerts, signals, market, today, nruns, moved>>

Commit ==
    /\ risk_metrics' = commit_rows(risk_metrics)
    /\ alerts' = commit_rows(alerts)
    /\ signals' = commit_rows(signals)
    /\ UNCHANGED holdings_tbl

\* scheduler.py:152
RiskCommit(self) ==
    /\ proc[self].pc = "risk_commit"
    /\ \/ /\ Commit
          /\ proc' = [proc EXCEPT ![self].pc = "alert_read"]
          /\ UNCHANGED nfaults
       \/ /\ Raise
          /\ proc' = [proc EXCEPT ![self] = risk_block_failed(proc[self])]
          /\ UNCHANGED dbVars
    /\ UNCHANGED <<fnVars, dayVars, alertVars, healthVars, nmoves, nreqs, market, today, nruns, moved>>

\* scheduler.py:162-168
AlertRead(self) ==
    /\ proc[self].pc = "alert_read"
    /\ LET data == holdings_of(holdings_tbl, proc[self].pf)
       IN  proc' = [proc EXCEPT ![self] =
                      [IF data = <<>> THEN portfolio_done(proc[self])
                       ELSE [@ EXCEPT !.holdings_data = data, !.pc = "alert_gen"]
                          EXCEPT !.alert_holdings[proc[self].pf] = data]]
    /\ UNCHANGED <<fnVars, dayVars, alertVars, healthVars, nmoves, nreqs, dbVars, market, today, nruns, nfaults, moved>>

\* scheduler.py:169-170: generate_alerts(holdings_data), without the health
\* score just computed
AlertGen(self) ==
    /\ proc[self].pc = "alert_gen"
    /\ \/ /\ LET found == generate_alerts(proc[self].holdings_data, <<>>,
                                          World.px, World.info, World.stats)
             IN  proc' = [proc EXCEPT ![self].todo = found,
                                      ![self].emitted[proc[self].pf] = Len(found),
                                      ![self].pc = IF found = <<>> THEN "alert_commit"
                                                   ELSE "alert_insert"]
          /\ UNCHANGED nfaults
       \/ /\ Raise
          /\ proc' = [proc EXCEPT ![self] = alert_block_failed(proc[self])]
    /\ UNCHANGED <<fnVars, dayVars, alertVars, healthVars, nmoves, nreqs, dbVars, market, today, nruns, moved>>

\* scheduler.py:171-185, one INSERT of the loop
AlertInsert(self) ==
    /\ proc[self].pc = "alert_insert"
    /\ \/ /\ alerts' = insert_row(alerts, alert_row(proc[self].pf, Head(proc[self].todo),
                                                    today, proc[self].run))
          /\ proc' = [proc EXCEPT ![self].todo = Tail(proc[self].todo),
                                  ![self].pc = IF Tail(proc[self].todo) = <<>>
                                               THEN "alert_commit" ELSE "alert_insert"]
          /\ UNCHANGED nfaults
       \/ /\ Raise
          /\ proc' = [proc EXCEPT ![self] = alert_block_failed(proc[self])]
          /\ UNCHANGED alerts
    /\ UNCHANGED <<fnVars, dayVars, alertVars, healthVars, nmoves, nreqs, holdings_tbl, risk_metrics, signals, market, today, nruns, moved>>

\* scheduler.py:186
AlertCommit(self) ==
    /\ proc[self].pc = "alert_commit"
    /\ \/ /\ Commit
          /\ proc' = [proc EXCEPT ![self] = portfolio_done(proc[self])]
          /\ UNCHANGED nfaults
       \/ /\ Raise
          /\ proc' = [proc EXCEPT ![self] = alert_block_failed(proc[self])]
          /\ UNCHANGED dbVars
    /\ UNCHANGED <<fnVars, dayVars, alertVars, healthVars, nmoves, nreqs, market, today, nruns, moved>>

\* scheduler.py:82-86, 193-245: the screener's rows are stored and committed,
\* or the screener yields nothing (no module, an exception, no result) and
\* nothing is committed
Screening(self) ==
    /\ proc[self].pc = "screening"
    /\ \/ Commit
       \/ UNCHANGED dbVars
    /\ proc' = [proc EXCEPT ![self].pc = "signal_detect"]
    /\ UNCHANGED <<fnVars, dayVars, alertVars, healthVars, nmoves, nreqs, market, today, nruns, nfaults, moved>>

AllTickers == Watchlist \cup {holdings_tbl[i].ticker : i \in 1..Len(holdings_tbl)}

\* scheduler.py:250-279
SignalDetect(self) ==
    /\ proc[self].pc = "signal_detect"
    /\ \/ /\ LET detected == IF AllTickers = {} THEN <<>>
                             ELSE detect_signals(AllTickers, World.patterns, today)
             IN  proc' = [proc EXCEPT ![self].todo = detected,
                                      ![self].sig = "ran",
                                      ![self].pc = IF detected = <<>> THEN "done"
                                                   ELSE "signal_insert"]
          /\ UNCHANGED nfaults
       \/ /\ Raise
          /\ proc' = [proc EXCEPT ![self].sig = "failed", ![self].pc = "done"]
    /\ UNCHANGED <<fnVars, dayVars, alertVars, healthVars, nmoves, nreqs, dbVars, market, today, nruns, moved>>

\* scheduler.py:283-299, one INSERT of the loop; an exception goes to
\* scheduler.py:91
SignalInsert(self) ==
    /\ proc[self].pc = "signal_insert"
    /\ \/ /\ signals' = insert_row(signals, signal_row(Head(proc[self].todo), today,
                                                       proc[self].run))
          /\ proc' = [proc EXCEPT ![self].todo = Tail(proc[self].todo),
                                  ![self].pc = IF Tail(proc[self].todo) = <<>>
                                               THEN "signal_commit" ELSE "signal_insert"]
          /\ UNCHANGED nfaults
       \/ /\ Raise
          /\ proc' = [proc EXCEPT ![self].sig = "failed", ![self].pc = "done",
                                  ![self].todo = <<>>]
          /\ UNCHANGED signals
    /\ UNCHANGED <<fnVars, dayVars, alertVars, healthVars, nmoves, nreqs, holdings_tbl, risk_metrics, alerts, market, today, nruns, moved>>

\* scheduler.py:300
SignalCommit(self) ==
    /\ proc[self].pc = "signal_commit"
    /\ \/ /\ Commit
          /\ proc' = [proc EXCEPT ![self].pc = "done"]
          /\ UNCHANGED nfaults
       \/ /\ Raise
          /\ proc' = [proc EXCEPT ![self].sig = "failed", ![self].pc = "done"]
          /\ UNCHANGED dbVars
    /\ UNCHANGED <<fnVars, dayVars, alertVars, healthVars, nmoves, nreqs, market, today, nruns, moved>>

\* the provider's data changes
MarketMove ==
    /\ nmoves < MaxMoves
    /\ nmoves' = nmoves + 1
    /\ \E w \in 1..Len(Worlds) : w # market /\ market' = w
    /\ moved' = (moved \/ nruns > 0)
    /\ UNCHANGED <<fnVars, dayVars, alertVars, healthVars, dbVars, today, proc, nruns, nfaults, nreqs>>

\* midnight (UTC)
NextDay ==
    /\ today < MaxDay
    /\ today' = today + 1
    /\ UNCHANGED <<fnVars, dayVars, alertVars, healthVars, nmoves, nreqs, dbVars, market, proc, nruns, nfaults, moved>>

\* a step of a started run
RunStep(self) ==
    \/ NextPortfolio(self) \/ ReadTickers(self) \/ PriceFetch(self)
    \/ RiskRead(self) \/ RiskCalc(self) \/ HealthCalc(self) \/ RiskInsert(self)
    \/ RiskCommit(self) \/ AlertRead(self) \/ AlertGen(self) \/ AlertInsert(self)
    \/ AlertCommit(self) \/ Screening(self) \/ SignalDetect(self)
    \/ SignalInsert(self) \/ SignalCommit(self)

Next ==
    \/ \E self \in Procs : Start(self) \/ RunStep(self)
    \/ MarketMove
    \/ NextDay

Spec == Init /\ [][Next]_vars

\* ------------------------------------------------------------------------
\* The requests served while the daily check is suspended at an await
\* (src/api/routers/portfolio.py, src/api/routers/alerts.py) and the weekly
\* report (src/api/scheduler.py:303-319). Every handler works on the one
\* connection of get_db, so its commit makes every pending row durable.
\* ------------------------------------------------------------------------
MaxRequests == 1

PortfolioIds == Portfolios \cup {3}

NewHoldings == {[ticker |-> "AAPL", shares |-> 1, buy_price |-> 1000]}

Served == nreqs < MaxRequests /\ nreqs' = nreqs + 1

\* POST /portfolios/{portfolio_id}/holdings
AddHolding(portfolio_id, body) ==
    /\ Served
    /\ IF portfolio_id \notin Portfolios
       THEN UNCHANGED dbVars
       ELSE /\ holdings_tbl' = Append(holdings_tbl,
                                      [portfolio_id |-> portfolio_id, ticker |-> body.ticker,
                                       shares |-> body.shares, buy_price |-> body.buy_price])
            /\ risk_metrics' = commit_rows(risk_metrics)
            /\ alerts' = commit_rows(alerts)
            /\ signals' = commit_rows(signals)
    /\ UNCHANGED <<fnVars, dayVars, alertVars, healthVars, nmoves, market, today, proc, nruns, nfaults, moved>>

\* DELETE /portfolios/{portfolio_id}/holdings/{ticker}
DeleteHolding(portfolio_id, ticker) ==
    /\ Served
    /\ holdings_tbl' = SelectSeq(holdings_tbl,
                                 LAMBDA h : ~(h.portfolio_id = portfolio_id /\ h.ticker = ticker))
    /\ risk_metrics' = commit_rows(risk_metrics)
    /\ alerts' = commit_rows(alerts)
    /\ signals' = commit_rows(signals)
    /\ UNCHANGED <<fnVars, dayVars, alertVars, healthVars, nmoves, market, today, proc, nruns, nfaults, moved>>

\* UPDATE alerts SET is_read = 1
mark_read(row) == [row EXCEPT !.is_read = 1]

resolve_relevel(row, now) ==
    [row EXCEPT !.is_resolved = 1, !.resolved_at = <<now>>, !.level = 0]

\* UPDATE alerts SET is_resolved = 1, resolved_at = ?
resolve(row, now) == [row EXCEPT !.is_resolved = 1, !.resolved_at = <<now>>]

\* PUT /alerts/{alert_id}/read; the id of an alert is its position
MarkAlertRead(alert_id) ==
    /\ Served
    /\ IF alert_id \notin 1..Len(alerts)
       THEN UNCHANGED dbVars
       ELSE /\ alerts' = commit_rows([alerts EXCEPT ![alert_id] = mark_read(@)])
            /\ risk_metrics' = commit_rows(risk_metrics)
            /\ signals' = commit_rows(signals)
            /\ UNCHANGED holdings_tbl
    /\ UNCHANGED <<fnVars, dayVars, alertVars, healthVars, nmoves, market, today, proc, nruns, nfaults, moved>>

\* PUT /alerts/{alert_id}/resolve
ResolveAlert(alert_id) ==
    /\ Served
    /\ IF alert_id \notin 1..Len(alerts)
       THEN UNCHANGED dbVars
       ELSE /\ alerts' = commit_rows([alerts EXCEPT ![alert_id] = resolve(@, today)])
            /\ risk_metrics' = commit_rows(risk_metrics)
            /\ signals' = commit_rows(signals)
            /\ UNCHANGED holdings_tbl
    /\ UNCHANGED <<fnVars, dayVars, alertVars, healthVars, nmoves, market, today, proc, nruns, nfaults, moved>>

\* PUT /portfolios/{portfolio_id}/alerts/resolve-all
ResolveAllAlerts(portfolio_id) ==
    /\ Served
    /\ alerts' = commit_rows([i \in 1..Len(alerts) |->
                                IF alerts[i].portfolio_id = portfolio_id
                                   /\ alerts[i].is_resolved = 0
                                THEN resolve(alerts[i], today) ELSE alerts[i]])
    /\ risk_metrics' = commit_rows(risk_metrics)
    /\ signals' = commit_rows(signals)
    /\ UNCHANGED holdings_tbl
    /\ UNCHANGED <<fnVars, dayVars, alertVars, healthVars, nmoves, market, today, proc, nruns, nfaults, moved>>

sweep_all(tbl, now) ==
    [i \in 1..Len(tbl) |-> IF tbl[i].is_valid = 1 THEN [tbl[i] EXCEPT !.is_valid = 0]
                           ELSE tbl[i]]

\* UPDATE signals SET is_valid = 0 WHERE is_valid = 1 AND expires_at < ?
sweep(tbl, now) ==
    [i \in 1..Len(tbl) |-> IF tbl[i].is_valid = 1 /\ tbl[i].expires_at < now
                           THEN [tbl[i] EXCEPT !.is_valid = 0]
                           ELSE tbl[i]]

\* run_weekly_report
WeeklyReport ==
    /\ signals' = commit_rows(sweep(signals, today))
    /\ risk_metrics' = commit_rows(risk_metrics)
    /\ alerts' = commit_rows(alerts)
    /\ UNCHANGED holdings_tbl
    /\ UNCHANGED <<fnVars, dayVars, alertVars, healthVars, jobVars>>

\* more than the life of a signal passes
WeekPasses ==
    /\ today <= MaxDay
    /\ today' = today + DEFAULT_EXPIRY_DAYS + 1
    /\ UNCHANGED <<fnVars, dayVars, alertVars, healthVars, nmoves, nreqs, dbVars, market, proc, nruns, nfaults, moved>>

Request ==
    \/ \E p \in PortfolioIds, h \in NewHoldings : AddHolding(p, h)
    \/ \E p \in Portfolios, t \in Tickers : DeleteHolding(p, t)
    \/ \E id \in 1..(Len(alerts) + 1) : MarkAlertRead(id) \/ ResolveAlert(id)
    \/ \E p \in Portfolios : ResolveAllAlerts(p)

NextOps ==
    \/ \E self \in Procs : Start(self) \/ RunStep(self)
    \/ Request
    \/ WeeklyReport
    \/ WeekPasses

SpecOps == Init /\ [][NextOps]_vars

\* ------------------------------------------------------------------------
\* Specification of one health evaluation: calculate_health_score on given
\* RiskMetrics, the row the daily check stores for it, and its read through
\* GET /portfolios/{id}/health
\* ------------------------------------------------------------------------
MetricsArgs ==
    [portfolio_volatility : {0, VOL_GOOD, VOL_GOOD + 1, VOL_BAD, 9000},
     max_drawdown : {MDD_GOOD, MDD_BAD},
     sharpe_ratio : {9000},
     hhi : {0, HHI_GOOD, HHI_GOOD + 1, HHI_BAD, 10000},
     var_95 : {150},
     avg_correlation : {-5000, CORR_GOOD, CORR_BAD, NaN}]

HealthProviders ==
    {[s \in Symbols |-> c] : c \in {<<>>, <<1000, 1100>>}}

InitHealth ==
    /\ arg_holdings \in HoldingLists(MaxHoldings)
    /\ arg_health = <<>>
    /\ arg_metrics \in {<<rm>> : rm \in MetricsArgs}
    /\ provider \in HealthProviders
    /\ fundamentals = Worlds[1].info
    /\ result = <<>>
    /\ returned = FALSE
    /\ health = <<>>
    /\ response = <<>>
    /\ InitDb
    /\ InitJob
    /\ IdleFn
    /\ IdleDay

\* calculate_health_score(holdings, risk_metrics)
CalculateHealth ==
    /\ health = <<>>
    /\ health' = <<calculate_health_score(arg_holdings, arg_metrics, provider, CalmStats)>>
    /\ UNCHANGED <<fnVars, dayVars, alertVars, dbVars, jobVars, arg_metrics, response>>

\* scheduler.py:136-152: the row of the day is written and committed
StoreHealth ==
    /\ health # <<>>
    /\ risk_metrics = <<>>
    /\ risk_metrics' = commit_rows(insert_or_replace(risk_metrics,
                           risk_row(1, today, health[1], arg_metrics[1], 1)))
    /\ UNCHANGED <<fnVars, dayVars, alertVars, holdings_tbl, alerts, signals, jobVars, healthVars>>

\* GET /portfolios/1/health
GetHealth ==
    /\ response = <<>>
    /\ \E row \in latest_rows(risk_metrics, 1) : response' = <<get_health(row)>>
    /\ UNCHANGED <<fnVars, dayVars, alertVars, dbVars, jobVars, arg_metrics, health>>

NextHealth == CalculateHealth \/ StoreHealth \/ GetHealth

SpecHealth == InitHealth /\ [][NextHealth]_vars

\* ------------------------------------------------------------------------
\* Specification of one generate_alerts call
\* ------------------------------------------------------------------------
InitAlerts ==
    /\ arg_holdings \in HoldingLists(MaxHoldings)
    /\ arg_health \in HealthArgs \cup {<<>>}
    /\ provider \in Providers
    /\ fundamentals \in Fundamentals
    /\ result = <<>>
    /\ returned = FALSE
    /\ InitDb
    /\ InitJob
    /\ IdleHealth
    /\ IdleFn
    /\ IdleDay

GenerateAlerts ==
    /\ ~returned
    /\ result' = generate_alerts(arg_holdings, arg_health, provider, fundamentals, CalmStats)
    /\ returned' = TRUE
    /\ UNCHANGED <<fnVars, dayVars, arg_holdings, arg_health, provider, fundamentals, dbVars, jobVars, healthVars>>

NextAlerts == GenerateAlerts

SpecAlerts == InitAlerts /\ [][NextAlerts]_vars

\* the health score the call used
UsedHealth ==
    IF arg_health = <<>>
    THEN calculate_health_score(arg_holdings, <<>>, provider, CalmStats)
    ELSE arg_health[1]

HasAlert(type, ticker) ==
    \E i \in 1..Len(result) : result[i].alert_type = type /\ result[i].ticker = ticker

CountIn(s, a) == Cardinality({i \in 1..Len(s) : s[i] = a})

RECURSIVE IsSubSeq(_, _)
IsSubSeq(s, t) ==
    IF s = <<>> THEN TRUE
    ELSE IF t = <<>> THEN FALSE
    ELSE IF Head(s) = Head(t) THEN IsSubSeq(Tail(s), Tail(t))
    ELSE IsSubSeq(s, Tail(t))

RuleRank(type) ==
    CASE type = "W-01" -> 1
      [] type \in {"W-02", "W-03"} -> 2
      [] type \in {"W-04", "W-05"} -> 3
      [] type = "W-06" -> 4
      [] type = "W-07" -> 5
      [] type = "W-08" -> 6
      [] type = "W-09" -> 7
      [] type = "W-10" -> 8

TickersOfType(type) ==
    LET sel == SelectSeq(result, LAMBDA a : a.alert_type = type)
    IN  [i \in 1..Len(sel) |-> sel[i].ticker]

\* C5: the result of generate_alerts is in non-increasing level; alerts of equal
\* level are in rule evaluation order and, within one per-ticker rule, in
\* holdings order; and the result holds exactly the alerts of the ten rules.
C5_SortedStableComplete ==
    returned =>
        LET raw == raw_alerts(arg_holdings, provider, fundamentals, UsedHealth)
        IN  /\ \A i, j \in 1..Len(result) : i < j => result[i].level >= result[j].level
            /\ \A i, j \in 1..Len(result) :
                  (i < j /\ result[i].level = result[j].level)
                      => RuleRank(result[i].alert_type) <= RuleRank(result[j].alert_type)
            /\ \A type \in {"W-01", "W-02", "W-03", "W-06", "W-10"} :
                  IsSubSeq(TickersOfType(type),
                           [i \in 1..Len(arg_holdings) |-> arg_holdings[i].ticker])
            /\ Len(result) = Len(raw)
            /\ \A i \in 1..Len(raw) : CountIn(result, raw[i]) = CountIn(raw, raw[i])

\* a call whose result has two levels, two rules at one level and two alerts
\* of one per-ticker rule
C5_Witness ==
    /\ returned
    /\ \E i, j \in 1..Len(result) : result[i].level > result[j].level
    /\ \E i, j \in 1..Len(result) :
          /\ i < j
          /\ result[i].level = result[j].level
          /\ result[i].alert_type # result[j].alert_type
    /\ \E i, j \in 1..Len(result) :
          /\ i < j
          /\ result[i].alert_type = "W-01"
          /\ result[j].alert_type = "W-01"
          /\ result[i].ticker # result[j].ticker

\* C6: one generate_alerts result never holds both a W-02 and a W-03 alert for
\* the same ticker.
C6_W02W03Exclusive ==
    returned => \A t \in Tickers : ~(HasAlert("W-02", t) /\ HasAlert("W-03", t))

Priced(h) == fetch_price_history(provider, h.ticker, "5d") # <<>>

Close(h) == Last(fetch_price_history(provider, h.ticker, "5d"))

CountHoldings(Test(_)) == Cardinality({i \in 1..Len(arg_holdings) : Test(arg_holdings[i])})

CountAlerts(type, ticker) ==
    Cardinality({i \in 1..Len(result) :
                    result[i].alert_type = type /\ result[i].ticker = ticker})

\* C7: for a holding with positive cost basis and an available price, with
\* r = (close - cost) / cost: W-03 (level 4) iff r <= -15%, W-02 (level 3) iff
\* -15% < r <= -10%, neither when r > -10%.  Stated per ticker by counting: the
\* W-03 (W-02) alerts of a ticker are as many as its holdings in that band.
C7_LossBands ==
    returned =>
        \A t \in Tickers :
            /\ CountAlerts("W-03", t) =
                 CountHoldings(LAMBDA h : /\ h.ticker = t /\ h.buy_price > 0 /\ Priced(h)
                                          /\ (Close(h) - h.buy_price) * 100 <= -15 * h.buy_price)
            /\ CountAlerts("W-02", t) =
                 CountHoldings(LAMBDA h : /\ h.ticker = t /\ h.buy_price > 0 /\ Priced(h)
                                          /\ (Close(h) - h.buy_price) * 100 > -15 * h.buy_price
                                          /\ (Close(h) - h.buy_price) * 100 <= -10 * h.buy_price)
            /\ \A i \in 1..Len(result) :
                  /\ result[i].alert_type = "W-03" => result[i].level = 4
                  /\ result[i].alert_type = "W-02" => result[i].level = 3

\* a call with holdings at exactly -10%, exactly -15% and -9.9%: the first
\* gets W-02 only, the second W-03 only, the third neither
C7_Witness ==
    /\ returned
    /\ Len(arg_holdings) = 2
    /\ arg_holdings[1].ticker = "7203.T" /\ arg_holdings[1].buy_price = 1000
    /\ provider["7203.T"] = <<1000, 900>>
    /\ arg_holdings[2].ticker = "AAPL" /\ arg_holdings[2].buy_price = 1200
    /\ provider["AAPL"] = <<1010, 1020>>
    /\ HasAlert("W-02", "7203.T") /\ ~HasAlert("W-03", "7203.T")
    /\ HasAlert("W-03", "AAPL") /\ ~HasAlert("W-02", "AAPL")

\* C10: a portfolio-wide W-04 (level 4) iff the health total is < 40, a
\* portfolio-wide W-05 (level 2) iff 40 <= total < 70, never both, neither
\* when total >= 70; so W-04 exactly for tier red and W-05 exactly for yellow.
C10_HealthAlerts ==
    returned =>
        LET total == UsedHealth.total
            w04 == \E i \in 1..Len(result) : result[i].alert_type = "W-04"
            w05 == \E i \in 1..Len(result) : result[i].alert_type = "W-05"
        IN  /\ w04 <=> FLt(total, 4000)
            /\ w05 <=> (FGe(total, 4000) /\ FLt(total, 7000))
            /\ ~(w04 /\ w05)
            /\ FGe(total, 7000) => ~w04 /\ ~w05
            /\ w04 <=> determine_level(total) = "red"
            /\ w05 <=> determine_level(total) = "yellow"
            /\ \A i \in 1..Len(result) :
                  /\ result[i].alert_type = "W-04"
                        => result[i].level = 4 /\ result[i].ticker = NONE
                  /\ result[i].alert_type = "W-05"
                        => result[i].level = 2 /\ result[i].ticker = NONE
            /\ CountAlerts("W-04", NONE) + CountAlerts("W-05", NONE) <= 1

\* ------------------------------------------------------------------------
\* Missing price data in the per-ticker rules
\* ------------------------------------------------------------------------
PerTickerRules == {"W-01", "W-02", "W-03", "W-06", "W-10"}

PerTicker(s) == SelectSeq(s, LAMBDA a : a.alert_type \in PerTickerRules)

PricedOnly(holdings, px) == SelectSeq(holdings, LAMBDA h : px[h.ticker] # <<>>)

ZeroMetrics ==
    [portfolio_volatility |-> 0, max_drawdown |-> 0, sharpe_ratio |-> 0, hhi |-> 0,
     var_95 |-> 0, avg_correlation |-> 0]

\* C11: with holdings whose ticker has no price history, generate_alerts and
\* calculate_risk_metrics return a value; the result holds no W-01, W-02,
\* W-03, W-06 or W-10 alert for a ticker without prices; the alerts of these
\* rules are those of the same call on the holdings list without the
\* priceless holdings; and with no priced holding at all the risk metrics are
\* all zero.
C11_MissingPrices ==
    returned =>
        LET rm == calculate_risk_metrics(arg_holdings, provider, CalmStats)
        IN  /\ \A i \in 1..Len(result) :
                  result[i].alert_type \in PerTickerRules
                      => provider[result[i].ticker] # <<>>
            /\ PerTicker(result) =
                  PerTicker(generate_alerts(PricedOnly(arg_holdings, provider), arg_health,
                                            provider, fundamentals, CalmStats))
            /\ rm.hhi \in 0..10000
            /\ (\A i \in 1..Len(arg_holdings) : ~Priced(arg_holdings[i])) => rm = ZeroMetrics

\* a call on a priceless holding followed by a priced one that is 15% under
\* its cost: the second gets its alerts, the first none
C11_Witness ==
    /\ returned
    /\ Len(arg_holdings) = 2
    /\ ~Priced(arg_holdings[1]) /\ arg_holdings[1].buy_price > 0
    /\ Priced(arg_holdings[2])
    /\ HasAlert("W-03", arg_holdings[2].ticker)
    /\ HasAlert("W-06", arg_holdings[2].ticker)
    /\ \A i \in 1..Len(result) : result[i].ticker # arg_holdings[1].ticker

\* ------------------------------------------------------------------------
\* Properties of the daily check (specification Spec)
\* ------------------------------------------------------------------------
Quiescent == \A self \in Procs : proc[self].pc \in {"idle", "done"}

\* rows of a table written by run `run` for portfolio p
RowsOf(tbl, run, p) == {i \in 1..Len(tbl) : tbl[i].run = run /\ tbl[i].portfolio_id = p}

\* C1: an exception while one portfolio is processed stops neither the other
\* portfolios nor the signal detection: when run_daily_check returns, every
\* portfolio has been visited, the signal detection step has run (or failed
\* on its own), and every portfolio whose processing did not fail has its
\* risk_metrics row and every alert generated for it stored and committed.
C1_FailureIsolation ==
    \A self \in Procs :
        LET pr == proc[self]
        IN  pr.pc = "done" =>
                /\ \A p \in Portfolios : pr.outcome[p] # "pending"
                /\ pr.sig # "pending"
                /\ \A p \in Portfolios :
                      pr.outcome[p] = "ok" =>
                          /\ Cardinality(RowsOf(risk_metrics, pr.run, p)) = 1
                          /\ \A i \in RowsOf(risk_metrics, pr.run, p) : risk_metrics[i].committed
                          /\ Cardinality(RowsOf(alerts, pr.run, p)) = pr.emitted[p]
                          /\ \A i \in RowsOf(alerts, pr.run, p) : alerts[i].committed

\* a run in which portfolio 1 failed and portfolio 2 was processed after it
C1_Witness ==
    \E self \in Procs :
        /\ proc[self].pc = "done"
        /\ proc[self].outcome[1] = "failed"
        /\ proc[self].outcome[2] = "ok"
        /\ proc[self].sig = "ran"
        /\ RowsOf(alerts, proc[self].run, 2) # {}

\* C2: once a daily check is done, a portfolio whose processing raised an
\* exception in that run has no committed risk_metrics row and no committed
\* alert row written by that run.
C2_NoPartialWrite ==
    \A self \in Procs :
        proc[self].pc = "done" =>
            \A p \in Portfolios :
                proc[self].outcome[p] = "failed" =>
                    /\ \A i \in RowsOf(risk_metrics, proc[self].run, p) : ~risk_metrics[i].committed
                    /\ \A i \in RowsOf(alerts, proc[self].run, p) : ~alerts[i].committed

\* the latest run that wrote a risk_metrics row for portfolio p and date d
LatestRun(p, d) ==
    LET runs == {r.run : r \in get_risk_metrics(risk_metrics, p, d)}
    IN  CHOOSE r \in runs : \A q \in runs : q <= r

\* C3: whenever no daily check is in progress, risk_metrics holds at most one
\* row per portfolio and date, and the row the risk-metrics endpoint returns
\* for that portfolio and date is the one the latest run wrote.
C3_UpsertPerPortfolioDate ==
    Quiescent =>
        \A p \in Portfolios, d \in 0..MaxDay :
            /\ Cardinality({i \in 1..Len(risk_metrics) :
                               /\ risk_metrics[i].portfolio_id = p
                               /\ risk_metrics[i].date = d}) <= 1
            /\ \A row \in get_risk_metrics(risk_metrics, p, d) : row.run = LatestRun(p, d)

\* what an alert or signal row says, apart from when and by which run it was
\* written
AlertContent(r) == <<r.portfolio_id, r.ticker, r.alert_type, r.level, r.message>>

SignalContent(r) == <<r.ticker, r.signal_type, r.priority>>

ExpectedAlerts(p) ==
    LET found == generate_alerts(holdings_of(holdings_tbl, p), <<>>,
                                 World.px, World.info, World.stats)
    IN  [i \in 1..Len(found) |-> AlertContent(alert_row(p, found[i], 0, 0))]

ExpectedSignals ==
    LET found == detect_signals(AllTickers, World.patterns, 0)
    IN  [i \in 1..Len(found) |-> SignalContent(signal_row(found[i], 0, 0))]

CommittedCount(tbl, Content(_), c) ==
    Cardinality({i \in 1..Len(tbl) : tbl[i].committed /\ Content(tbl[i]) = c})

\* k runs with no exception and unchanged data have stored every alert and
\* every signal k times
StoredOncePerRun ==
    (Quiescent /\ nfaults = 0 /\ ~moved) =>
        /\ \A p \in Portfolios :
              /\ Cardinality({i \in 1..Len(alerts) : alerts[i].portfolio_id = p})
                    = nruns * Len(ExpectedAlerts(p))
              /\ \A k \in 1..Len(ExpectedAlerts(p)) :
                    CommittedCount(alerts, AlertContent, ExpectedAlerts(p)[k])
                        = nruns * CountIn(ExpectedAlerts(p), ExpectedAlerts(p)[k])
        /\ Len(signals) = nruns * Len(ExpectedSignals)
        /\ \A k \in 1..Len(ExpectedSignals) :
              CommittedCount(signals, SignalContent, ExpectedSignals[k])
                  = nruns * CountIn(ExpectedSignals, ExpectedSignals[k])

\* no step removes or rewrites a stored alert or signal
AppendOnly ==
    /\ Len(alerts') >= Len(alerts)
    /\ \A i \in 1..Len(alerts) :
          /\ [alerts'[i] EXCEPT !.committed = TRUE] = [alerts[i] EXCEPT !.committed = TRUE]
          /\ alerts[i].committed => alerts'[i].committed
    /\ Len(signals') >= Len(signals)
    /\ \A i \in 1..Len(signals) :
          /\ [signals'[i] EXCEPT !.committed = TRUE] = [signals[i] EXCEPT !.committed = TRUE]
          /\ signals[i].committed => signals'[i].committed

\* C4: alerts and signals are append-only and not deduplicated: after k daily
\* checks with unchanged holdings and provider data and no exception, every
\* alert and every signal whose condition holds is stored k times, and no
\* step of any run deletes or overwrites a row stored earlier.
C4_AppendOnlyNoDedup == []StoredOncePerRun /\ [][AppendOnly]_vars

C4_Witness ==
    /\ Quiescent /\ nfaults = 0 /\ ~moved /\ nruns = 2
    /\ Len(ExpectedAlerts(1)) >= 2
    /\ Len(alerts) = 2 * (Len(ExpectedAlerts(1)) + Len(ExpectedAlerts(2)))
    /\ Len(signals) = 2 * Len(ExpectedSignals)
    /\ Len(signals) > 0

\* ------------------------------------------------------------------------
\* Properties of the health score (specification SpecHealth)
\* ------------------------------------------------------------------------
Metrics == arg_metrics[1]

LossCount == Cardinality({i \in 1..Len(arg_holdings) :
                             /\ arg_holdings[i].buy_price > 0
                             /\ Priced(arg_holdings[i])
                             /\ Close(arg_holdings[i]) < arg_holdings[i].buy_price})

AllGood ==
    /\ FGe(HHI_GOOD, Metrics.hhi)
    /\ FGe(VOL_GOOD, Metrics.portfolio_volatility)
    /\ FGe(MDD_GOOD, Metrics.max_drawdown)
    /\ FGe(CORR_GOOD, Metrics.avg_correlation)
    /\ LossCount = 0

AllBad ==
    /\ FGe(Metrics.hhi, HHI_BAD)
    /\ FGe(Metrics.portfolio_volatility, VOL_BAD)
    /\ FGe(Metrics.max_drawdown, MDD_BAD)
    /\ FGe(Metrics.avg_correlation, CORR_BAD)
    /\ 2 * LossCount >= Len(arg_holdings)

\* C8: for non-empty holdings and any RiskMetrics, the health total and the
\* five sub-scores lie in [0, 100]; the total is 100 when every quantity is
\* at or better than its good threshold and 0 when every quantity is at or
\* worse than its bad threshold.  Scores are in units of 0.01.
C8_HealthRange ==
    (health # <<>> /\ arg_holdings # <<>>) =>
        /\ FGe(health[1].total, 0) /\ FGe(10000, health[1].total)
        /\ \A k \in 1..5 : FGe(health[1].breakdown[k], 0) /\ FGe(10000, health[1].breakdown[k])
        /\ AllGood => health[1].total = 10000
        /\ AllBad => health[1].total = 0

\* C9: the tier is green iff total >= 70, yellow iff 40 <= total < 70 and red
\* iff total < 40, and the tier GET /portfolios/{id}/health reports for the
\* stored score is the tier the scorer gave to it.
C9_Tiers ==
    /\ (health # <<>> /\ arg_holdings # <<>>) =>
          /\ health[1].level = "green" <=> FGe(health[1].total, 7000)
          /\ health[1].level = "yellow" <=> (FGe(health[1].total, 4000)
                                             /\ FLt(health[1].total, 7000))
          /\ health[1].level = "red" <=> FLt(health[1].total, 4000)
    /\ response # <<>> =>
          /\ response[1].health_score = health[1].total
          /\ arg_holdings # <<>> => response[1].level = health[1].level

\* C16: every Signal object a detector returned, and every stored signal row,
\* has expires_at = created_at + 7 days.
C16_ExpiryIsCreationPlus7 ==
    /\ \A self \in Procs : \A i \in 1..Len(proc[self].todo) :
          proc[self].pc \in {"signal_insert", "signal_commit"}
              => proc[self].todo[i].expires_at = proc[self].todo[i].created_at + 7
    /\ \A i \in 1..Len(signals) : signals[i].expires_at = signals[i].created_at + 7

\* C23: when the price refresh of a portfolio raised, the run still stored
\* and committed that portfolio's risk_metrics row (risk metrics and health
\* score) and its alerts.
C23_FetchFailureIsLocal ==
    \A self \in Procs :
        LET pr == proc[self]
        IN  pr.pc = "done" =>
                \A p \in pr.fetch_failed :
                    /\ \E i \in RowsOf(risk_metrics, pr.run, p) : risk_metrics[i].committed
                    /\ \E i \in RowsOf(alerts, pr.run, p) : alerts[i].committed

HasStoredAlert(run, p, type) ==
    \E i \in RowsOf(alerts, run, p) : alerts[i].alert_type = type

\* C24: for a portfolio processed without exception, the run stored a W-04
\* alert iff the health_score of the risk_metrics row it stored is < 40 and a
\* W-05 alert iff that score is >= 40 and < 70; and a run stored alerts for a
\* portfolio only if it stored a risk_metrics row for it.
C24_AlertsUseStoredHealth ==
    \A self \in Procs :
        LET pr == proc[self]
        IN  pr.pc = "done" =>
                \A p \in Portfolios :
                    /\ RowsOf(alerts, pr.run, p) # {} => RowsOf(risk_metrics, pr.run, p) # {}
                    /\ pr.outcome[p] = "ok" =>
                          \A i \in RowsOf(risk_metrics, pr.run, p) :
                              LET score == risk_metrics[i].health_score
                              IN  /\ HasStoredAlert(pr.run, p, "W-04") <=> FLt(score, 4000)
                                  /\ HasStoredAlert(pr.run, p, "W-05")
                                        <=> (FGe(score, 4000) /\ FLt(score, 7000))

\* the RiskMetrics of which a stored row holds the fields, the correlation
\* (not stored) being that of world w
SnapshotOf(row, holdings, w) ==
    [portfolio_volatility |-> row.portfolio_volatility, max_drawdown |-> row.max_drawdown,
     sharpe_ratio |-> row.sharpe_ratio, hhi |-> row.hhi, var_95 |-> row.var_95,
     avg_correlation |->
         calculate_risk_metrics(holdings, Worlds[w].px, Worlds[w].stats).avg_correlation]

\* C25: the health_score of every stored risk_metrics row is the score of the
\* RiskMetrics stored in the same row (its hhi, portfolio_volatility and
\* max_drawdown), whatever the provider served during the run.
C25_HealthOfSameSnapshot ==
    \A i \in 1..Len(risk_metrics) :
        LET row == risk_metrics[i]
            holdings == holdings_of(holdings_tbl, row.portfolio_id)
        IN  \E w \in 1..Len(Worlds) :
                row.health_score =
                    calculate_health_score(holdings, <<SnapshotOf(row, holdings, w)>>,
                                           Worlds[w].px, Worlds[w].stats).total

\* ------------------------------------------------------------------------
\* calculate_hhi on its own (specification SpecHhi): the weight dict is the
\* input, the fraction returned the output
\* ------------------------------------------------------------------------
MaxWeightTickers == 3

MaxWeight == 4

TickerName(i) ==
    IF i = 1 THEN "7203.T" ELSE IF i = 2 THEN "AAPL" ELSE "T" \o ToString(i)

\* dicts of up to MaxWeightTickers tickers with market values 0..MaxWeight
WeightDicts ==
    UNION {{[i \in 1..n |-> [k |-> TickerName(i), v |-> f[i]]] : f \in [1..n -> 0..MaxWeight]} :
              n \in 0..MaxWeightTickers}

InitHhi ==
    /\ input \in WeightDicts
    /\ output = <<>>
    /\ InitDb /\ InitJob /\ IdleAlerts /\ IdleHealth /\ IdleDay

CalculateHhi ==
    /\ output = <<>>
    /\ output' = <<calculate_hhi(input)>>
    /\ UNCHANGED <<input, dayVars, alertVars, dbVars, jobVars, healthVars>>

NextHhi == CalculateHhi

SpecHhi == InitHhi /\ [][NextHhi]_vars

\* C12: the HHI of a weight dict lies in [0, 1]; it is 1 iff one ticker holds
\* the whole of a positive total; it is 1/n for n tickers of equal positive
\* weight; it is 0 for the empty dict and for a total of 0.
C12_HhiContract ==
    output # <<>> =>
        LET hhi == output[1]
            total == SumSeq(DictValues(input))
        IN  /\ hhi.den > 0 /\ 0 <= hhi.num /\ hhi.num <= hhi.den
            /\ hhi.num = hhi.den <=> (total > 0 /\ \E i \in 1..Len(input) : input[i].v = total)
            /\ (total > 0 /\ \A i \in 1..Len(input) : input[i].v = input[1].v)
                    => hhi.num * Len(input) = hhi.den
            /\ (input = <<>> \/ total = 0) => hhi.num = 0

\* three tickers of equal positive weight returned 1/3
C12_Witness ==
    /\ output # <<>>
    /\ Len(input) = 3
    /\ input[1].v = 2 /\ input[2].v = 2 /\ input[3].v = 2
    /\ output[1].num * 3 = output[1].den

\* ------------------------------------------------------------------------
\* calculate_var on its own (specification SpecVar).  Returns are integers in
\* units of 1e-4; a VaR is in units of 1e-6 (the interpolation weight of
\* np.percentile is a multiple of 1/100 for the ranks that occur).
\* ------------------------------------------------------------------------
VAR_MIN_OBSERVATIONS == 10

RECURSIVE insert_sorted(_, _)
insert_sorted(x, s) ==
    IF s = <<>> THEN <<x>>
    ELSE IF x <= Head(s) THEN <<x>> \o s
    ELSE <<Head(s)>> \o insert_sorted(x, Tail(s))

RECURSIVE sorted_values(_)
sorted_values(s) ==
    IF s = <<>> THEN <<>> ELSE insert_sorted(Head(s), sorted_values(Tail(s)))

\* 100 * np.percentile(a, q) with the default linear interpolation, q a whole
\* number of percent: rank q/100 * (n - 1) between two order statistics
percentile_x100(a, q) ==
    LET x == sorted_values(a)
        rank_x100 == q * (Len(x) - 1)
        lo == (rank_x100 \div 100) + 1
        frac_x100 == rank_x100 % 100
    IN  IF frac_x100 = 0 THEN 100 * x[lo]
        ELSE 100 * x[lo] + frac_x100 * (x[lo + 1] - x[lo])

\* calculate_var(returns, confidence) with confidence given in percent and
\* portfolio_value = 1.0
calculate_var(returns, confidence) ==
    IF Len(returns) < VAR_MIN_OBSERVATIONS THEN 0
    ELSE Abs(percentile_x100(returns, 100 - confidence))

MaxObservations == 10

\* a loss of 3%, gains of 1% and 2%
ReturnValues == {-300, 100, 200}

ReturnSeries == UNION {[1..n -> ReturnValues] : n \in (VAR_MIN_OBSERVATIONS - 1)..MaxObservations}

InitVar ==
    /\ input \in ReturnSeries
    /\ output = <<>>
    /\ InitDb /\ InitJob /\ IdleAlerts /\ IdleHealth /\ IdleDay

\* lines 352-353 of calculate_risk_metrics: both VaRs of one return series
CalculateVar ==
    /\ output = <<>>
    /\ output' = <<[var_95 |-> calculate_var(input, 95), var_99 |-> calculate_var(input, 99)]>>
    /\ UNCHANGED <<input, dayVars, alertVars, dbVars, jobVars, healthVars>>

NextVar == CalculateVar

SpecVar == InitVar /\ [][NextVar]_vars

\* C13: for a return series of at least 10 observations the VaR at 99% is at
\* least the VaR at 95%.
C13_VarMonotone ==
    (output # <<>> /\ Len(input) >= VAR_MIN_OBSERVATIONS)
        => output[1].var_99 >= output[1].var_95

\* ------------------------------------------------------------------------
\* One ticker followed day after day (specification SpecDaily): each day the
\* provider has one more close, and the W-01 rule and the golden cross
\* detector are evaluated on what it serves that day.
\* ------------------------------------------------------------------------
Signal(ticker, signal_type, priority, now) ==
    [ticker |-> ticker, signal_type |-> signal_type, priority |-> priority,
     expires_at |-> now + DEFAULT_EXPIRY_DAYS, created_at |-> now]

\* window * calculate_ma(df, window) at row i (a simple moving average of the
\* close; defined from row `window` on)
ma_sum(df, window, i) == SumSeq([j \in 1..window |-> df[i - window + j]])

\* a detector that reports the short average being above the long one
detect_golden_cross_above(ticker, df, short_window, long_window, now) ==
    LET n == Len(df)
    IN  IF n < long_window + 2 THEN <<>>
        ELSE IF ma_sum(df, short_window, n) * long_window > ma_sum(df, long_window, n) * short_window
             THEN <<Signal(ticker, "golden_cross", "high", now)>>
             ELSE <<>>

\* detect_golden_cross: <<>> is None.  The averages are compared by
\* cross-multiplication of the window sums.
detect_golden_cross(ticker, df, short_window, long_window, now) ==
    LET n == Len(df)
    IN  IF n < long_window + 2 THEN <<>>
        ELSE LET prev_short == ma_sum(df, short_window, n - 1)
                 prev_long == ma_sum(df, long_window, n - 1)
                 curr_short == ma_sum(df, short_window, n)
                 curr_long == ma_sum(df, long_window, n)
             IN  IF /\ prev_short * long_window <= prev_long * short_window
                    /\ curr_short * long_window > curr_long * short_window
                 THEN <<Signal(ticker, "golden_cross", "high", now)>>
                 ELSE <<>>

MaxDays == 7

\* the windows the detector is called with (its defaults are 5 and 20)
ShortWindow == 2

LongWindow == 3

FollowedTicker == "7203.T"

DayCloses == {94, 95, 100, 110}

DayProvider(closes) == [s \in Symbols |-> IF s = FollowedTicker THEN closes ELSE <<>>]

FollowedHolding == [ticker |-> FollowedTicker, shares |-> 10, buy_price |-> 100]

InitDaily ==
    /\ history = <<>>
    /\ detections = <<>>
    /\ InitDb /\ InitJob /\ IdleAlerts /\ IdleHealth /\ IdleFn

NewClose(c) ==
    /\ Len(history) < MaxDays
    /\ history' = Append(history, c)
    /\ detections' =
          Append(detections,
                 [w01 |-> check_w01_daily_drop(<<FollowedHolding>>, DayProvider(history')),
                  golden_cross |-> detect_golden_cross(FollowedTicker, history', ShortWindow,
                                                       LongWindow, Len(history'))])
    /\ UNCHANGED <<fnVars, alertVars, dbVars, jobVars, healthVars>>

NextDaily == \E c \in DayCloses : NewClose(c)

SpecDaily == InitDaily /\ [][NextDaily]_vars

ShortAbove(t) ==
    ma_sum(history, ShortWindow, t) * LongWindow > ma_sum(history, LongWindow, t) * ShortWindow

\* C14: evaluated day by day on the growing series, a golden_cross signal
\* (priority high) is returned on day t, a day with at least long_window + 2
\* rows, iff the short average was <= the long average on day t-1 and is
\* strictly greater on day t; on no other day; and never on a series whose
\* short average is above the long average on every day.
C14_GoldenCrossDays ==
    /\ \A t \in 1..Len(history) :
          /\ detections[t].golden_cross # <<>>
                <=> (t >= LongWindow + 2 /\ ~ShortAbove(t - 1) /\ ShortAbove(t))
          /\ detections[t].golden_cross # <<>>
                => /\ detections[t].golden_cross[1].signal_type = "golden_cross"
                   /\ detections[t].golden_cross[1].priority = "high"
                   /\ detections[t].golden_cross[1].ticker = FollowedTicker
    /\ (\A t \in LongWindow..Len(history) : ShortAbove(t))
          => \A t \in 1..Len(history) : detections[t].golden_cross = <<>>

\* a series on which the signal was returned on one day and not on the next,
\* the short average still being above the long one
C14_Witness ==
    \E t \in (LongWindow + 2)..(Len(history) - 1) :
        /\ detections[t].golden_cross # <<>>
        /\ ShortAbove(t + 1)
        /\ detections[t + 1].golden_cross = <<>>

\* C17: evaluated day by day as the close series grows, W-01 (level 2, for
\* the ticker) is emitted on a day iff that day's close is at least 5% under
\* the previous close, exactly -5% included.
C17_DailyDropDays ==
    \A t \in 1..Len(history) :
        /\ detections[t].w01 # <<>>
              <=> (t >= 2 /\ (history[t] - history[t - 1]) * 100 <= -5 * history[t - 1])
        /\ detections[t].w01 # <<>>
              => detections[t].w01 = <<Alert("W-01", 2, FollowedTicker, "")>>

\* closes 100, 94, 110, 100, 95: W-01 on day 2 (-6%), not on day 3, and on
\* day 5 (exactly -5%)
C17_Witness ==
    /\ Len(history) >= 5
    /\ history[1] = 100 /\ history[2] = 94 /\ history[3] = 110
    /\ history[4] = 100 /\ history[5] = 95
    /\ detections[2].w01 # <<>>
    /\ detections[3].w01 = <<>>
    /\ detections[5].w01 # <<>>

\* ------------------------------------------------------------------------
\* detect_rsi_reversal on its own (specification SpecRsi).  The price frame
\* is given by its number of rows and by the RSI series calculate_rsi returns
\* for it.
\* ------------------------------------------------------------------------
RSI_PERIOD == 14

RSI_OVERSOLD == 30

\* the detector with the comparison of the latest value made non-strict
detect_rsi_reversal_ge(ticker, rows, rsi_series, period, oversold, lookback, now) ==
    IF rows < period + lookback THEN <<>>
    ELSE IF Len(rsi_series) < lookback + 1 THEN <<>>
    ELSE LET recent_rsi == LastN(rsi_series, lookback + 1)
             current_rsi == Last(recent_rsi)
             past_rsi == SubSeq(recent_rsi, 1, lookback)
             was_oversold == \E i \in 1..Len(past_rsi) : past_rsi[i] <= oversold
         IN  IF was_oversold /\ current_rsi >= oversold
             THEN <<Signal(ticker, "rsi_reversal", "medium", now)>>
             ELSE <<>>

\* detect_rsi_reversal: <<>> is None
detect_rsi_reversal(ticker, rows, rsi_series, period, oversold, lookback, now) ==
    IF rows < period + lookback THEN <<>>
    ELSE IF Len(rsi_series) < lookback + 1 THEN <<>>
    ELSE LET recent_rsi == LastN(rsi_series, lookback + 1)
             current_rsi == Last(recent_rsi)
             past_rsi == SubSeq(recent_rsi, 1, lookback)
             was_oversold == \E i \in 1..Len(past_rsi) : past_rsi[i] <= oversold
         IN  IF was_oversold /\ current_rsi > oversold
             THEN <<Signal(ticker, "rsi_reversal", "medium", now)>>
             ELSE <<>>

MaxRsiLen == 6

RsiValues == {28, 30, 31, 32, 35, 45}

\* the default lookback and a window of three days
Lookbacks == {3, 5}

RsiCalls ==
    {[rows |-> r, rsi |-> q, lookback |-> l] :
        r \in {RSI_PERIOD + 2, RSI_PERIOD + 5},
        q \in UNION {[1..n -> RsiValues] : n \in 3..MaxRsiLen},
        l \in Lookbacks}

InitRsi ==
    /\ input \in RsiCalls
    /\ output = <<>>
    /\ InitDb /\ InitJob /\ IdleAlerts /\ IdleHealth /\ IdleDay

DetectRsiReversal ==
    /\ output = <<>>
    /\ output' = <<detect_rsi_reversal(FollowedTicker, input.rows, input.rsi, RSI_PERIOD,
                                        RSI_OVERSOLD, input.lookback, 0)>>
    /\ UNCHANGED <<input, dayVars, alertVars, dbVars, jobVars, healthVars>>

NextRsi == DetectRsiReversal

SpecRsi == InitRsi /\ [][NextRsi]_vars

Trailing(q, n) == SubSeq(q, Len(q) - n + 1, Len(q))

\* C15: on a frame with the `lookback` RSI values before the latest one,
\* detect_rsi_reversal returns an rsi_reversal signal of priority medium iff
\* one of those values is <= 30 and the latest is strictly > 30; with a window
\* of three days the values 45, 28, 31, 35 fire and 45, 32, 31, 35 do not; a
\* latest value of exactly 30 never fires.
C15_RsiReversal ==
    (/\ output # <<>>
     /\ input.rows >= RSI_PERIOD + input.lookback
     /\ Len(input.rsi) >= input.lookback + 1) =>
        LET q == input.rsi
            n == Len(q)
            fired == output[1] # <<>>
        IN  /\ fired <=> (/\ \E i \in (n - input.lookback)..(n - 1) : q[i] <= 30
                          /\ q[n] > 30)
            /\ fired => /\ output[1][1].signal_type = "rsi_reversal"
                         /\ output[1][1].priority = "medium"
            /\ (input.lookback = 3 /\ Trailing(q, 4) = <<45, 28, 31, 35>>) => fired
            /\ (input.lookback = 3 /\ Trailing(q, 4) = <<45, 32, 31, 35>>) => ~fired
            /\ q[n] = 30 => ~fired

\* the default lookback of 5 on a series ending 45, 28, 31, 35 returned a
\* signal
C15_Witness ==
    /\ output # <<>>
    /\ input.lookback = 5
    /\ input.rows = RSI_PERIOD + 5
    /\ Len(input.rsi) = 6
    /\ Trailing(input.rsi, 4) = <<45, 28, 31, 35>>
    /\ output[1] # <<>>

\* ------------------------------------------------------------------------
\* generate_alerts on portfolios of up to three holdings at level prices
\* (specification SpecRules), for the concentration and majority rules
\* ------------------------------------------------------------------------
MaxRuleHoldings == 3

RulePool ==
    {[ticker |-> "7203.T", shares |-> 1, buy_price |-> 1000],
     [ticker |-> "7203.T", shares |-> 3, buy_price |-> 1000],
     [ticker |-> "AAPL", shares |-> 1, buy_price |-> 1000],
     [ticker |-> "AAPL", shares |-> 7, buy_price |-> 1000]}

\* no rows, one row, a fall to 1000 and a rise to 1000; then 29 closes at 880,
\* 30 closes at 880 after one at 1000, and 29 closes at 880 after 880, 1000
RuleSeries ==
    {<<>>, <<1000>>, <<1010, 1000>>, <<990, 1000>>,
     Many(880, LOSS_STALE_DAYS - 1),
     <<1000>> \o Many(880, LOSS_STALE_DAYS),
     <<880, 1000>> \o Many(880, LOSS_STALE_DAYS - 1)}

RuleProviders ==
    {[s \in Symbols |-> IF s = "7203.T" THEN a
                        ELSE IF s = "AAPL" THEN b ELSE <<1000, 1000>>] :
        a \in RuleSeries, b \in RuleSeries}

InitRules ==
    /\ arg_holdings \in HoldingListsOf(RulePool, MaxRuleHoldings)
    /\ arg_health = <<HealthOf(7000)>>
    /\ provider \in RuleProviders
    /\ fundamentals \in Fundamentals
    /\ result = <<>>
    /\ returned = FALSE
    /\ InitDb /\ InitJob /\ IdleHealth /\ IdleFn /\ IdleDay

SpecRules == InitRules /\ [][NextAlerts]_vars

\* current market value of the priced holdings that satisfy Test
MarketValue(Test(_)) ==
    SumSeq([i \in 1..Len(arg_holdings) |->
               IF Priced(arg_holdings[i]) /\ Test(arg_holdings[i])
               THEN Close(arg_holdings[i]) * arg_holdings[i].shares ELSE 0])

TotalMarketValue == MarketValue(LAMBDA h : TRUE)

\* C18: W-06 (level 3) is in the result for a ticker iff the market value of
\* all shares held in that ticker is strictly more than 30% of the market
\* value of all priced holdings; and the per-ticker values the rule uses add
\* up to that total (the weights sum to 1).
C18_W06Concentration ==
    returned =>
        /\ \A t \in Tickers :
              HasAlert("W-06", t)
                  <=> MarketValue(LAMBDA h : h.ticker = t) * 100 > 30 * TotalMarketValue
        /\ \A i \in 1..Len(result) : result[i].alert_type = "W-06" => result[i].level = 3
        /\ SumSeq(DictValues(calc_weights(arg_holdings, provider))) = TotalMarketValue

SectorOf(h) ==
    IF fundamentals[h.ticker] = NONE THEN "Unknown" ELSE fundamentals[h.ticker]

HasSectorAlert(sector) ==
    \E i \in 1..Len(result) :
        /\ result[i].alert_type = "W-07"
        /\ result[i].detail = sector
        /\ result[i].level = 3
        /\ result[i].ticker = NONE

\* C19: W-07 (level 3, portfolio-wide) is in the result for a sector iff the
\* market value of the holdings of that sector is strictly more than 50% of
\* the total market value, holdings without a sector counting as "Unknown";
\* so at most one sector has an alert.
C19_W07SectorConcentration ==
    returned =>
        /\ \A sector \in {"Technology", "Unknown"} :
              HasSectorAlert(sector)
                  <=> MarketValue(LAMBDA h : SectorOf(h) = sector) * 100 > 50 * TotalMarketValue
        /\ ~(HasSectorAlert("Technology") /\ HasSectorAlert("Unknown"))

Declined(h) ==
    LET df == fetch_price_history(provider, h.ticker, "5d")
    IN  Len(df) >= 2 /\ Last(df) < df[Len(df) - 1]

\* C20: W-09 (level 3, portfolio-wide) is in the result iff the holdings
\* whose latest close is below the previous close are at least half of the
\* holdings; never for an empty list.
C20_W09MajorityDrop ==
    returned =>
        /\ HasAlert("W-09", NONE)
              <=> (/\ arg_holdings # <<>>
                   /\ 2 * CountHoldings(Declined) >= Len(arg_holdings))
        /\ \A i \in 1..Len(result) : result[i].alert_type = "W-09" => result[i].level = 3

\* the length of the longest suffix of the closes that is wholly below cost
Streak(closes, cost) ==
    CHOOSE k \in 0..Len(closes) :
        /\ \A i \in (Len(closes) - k + 1)..Len(closes) : closes[i] < cost
        /\ k < Len(closes) => closes[Len(closes) - k] >= cost

\* C21: for holdings with a positive cost basis, W-10 (level 2) is emitted for
\* a ticker once per holding whose streak, the longest suffix of the close
\* series wholly below the cost basis, is at least 30; a streak of 29 gives
\* none.
C21_W10Streak ==
    returned =>
        /\ \A t \in Tickers :
              CountAlerts("W-10", t) =
                  CountHoldings(LAMBDA h : /\ h.ticker = t
                                           /\ h.buy_price > 0
                                           /\ Streak(provider[t], h.buy_price) >= 30)
        /\ \A i \in 1..Len(result) : result[i].alert_type = "W-10" => result[i].level = 2

\* one ticker with a streak of exactly 30 behind a close at cost has the
\* alert, the other with a streak of 29 has none
C21_Witness ==
    /\ returned
    /\ Len(arg_holdings) = 2
    /\ arg_holdings[1].ticker = "7203.T" /\ arg_holdings[2].ticker = "AAPL"
    /\ Streak(provider["7203.T"], 1000) = 30 /\ Len(provider["7203.T"]) = 31
    /\ Streak(provider["AAPL"], 1000) = 29 /\ Len(provider["AAPL"]) = 31
    /\ HasAlert("W-10", "7203.T")
    /\ ~HasAlert("W-10", "AAPL")

\* ------------------------------------------------------------------------
\* Properties of the stored alerts and signals under requests and the weekly
\* report (SpecOps)
\* ------------------------------------------------------------------------
AlertFields(row) ==
    <<row.portfolio_id, row.ticker, row.alert_type, row.level, row.message, row.created_at>>

AlertFlags(row) == <<row.is_read, row.is_resolved, row.resolved_at>>

UserAction ==
    \/ \E id \in 1..(Len(alerts) + 1) : MarkAlertRead(id) \/ ResolveAlert(id)
    \/ \E p \in Portfolios : ResolveAllAlerts(p)

\* C22: the core never changes an alert after it stored it. In every step no
\* alert row disappears, every existing row keeps its portfolio, ticker,
\* type, level, message and creation time, the flags is_read, is_resolved
\* and resolved_at of an existing row change only in a step of mark-read,
\* resolve or resolve-all, and every row a step adds is unread and
\* unresolved with a null resolved_at.
C22_AlertsFrame ==
    [][/\ Len(alerts') >= Len(alerts)
       /\ \A i \in 1..Len(alerts) :
             /\ AlertFields(alerts'[i]) = AlertFields(alerts[i])
             /\ AlertFlags(alerts'[i]) # AlertFlags(alerts[i]) => UserAction
       /\ \A i \in (Len(alerts) + 1)..Len(alerts') :
             /\ alerts'[i].is_read = 0
             /\ alerts'[i].is_resolved = 0
             /\ alerts'[i].resolved_at = <<>>]_vars

\* an alert of the first run was resolved by the user and the second run
\* stored a fresh alert after it
C22_Witness ==
    \E i, j \in 1..Len(alerts) :
        /\ i < j
        /\ alerts[i].is_resolved = 1 /\ alerts[i].resolved_at # <<>>
        /\ alerts[j].run > alerts[i].run
        /\ alerts[j].is_resolved = 0 /\ alerts[j].is_read = 0

SignalFields(row) ==
    <<row.ticker, row.signal_type, row.priority, row.expires_at, row.created_at>>

\* C28: in every step no signal row disappears and every stored signal keeps
\* its ticker, type, priority, expiry and creation time; is_valid of a
\* stored signal changes only from 1 to 0, only in a step of the weekly
\* report and only if expires_at is earlier than the time of the sweep, so
\* the sweep leaves a signal that is not expired or already invalid as it
\* was, and an invalid signal stays invalid.
C28_SignalsFrame ==
    [][/\ Len(signals') >= Len(signals)
       /\ \A i \in 1..Len(signals) :
             /\ SignalFields(signals'[i]) = SignalFields(signals[i])
             /\ signals'[i].is_valid # signals[i].is_valid =>
                   /\ signals[i].is_valid = 1 /\ signals'[i].is_valid = 0
                   /\ signals[i].expires_at < today
                   /\ WeeklyReport
             /\ signals[i].is_valid = 0 => signals'[i].is_valid = 0]_vars

\* the sweep has invalidated an expired signal and kept a later one valid
C28_Witness ==
    \E i, j \in 1..Len(signals) :
        /\ signals[i].is_valid = 0 /\ signals[i].expires_at < today
        /\ signals[j].is_valid = 1 /\ signals[j].expires_at >= today
        /\ signals[j].committed

\* C30: when run_daily_check has returned, for every portfolio processed
\* without a failure the alert block read the same holdings as the risk
\* block, and every alert of the run that names a ticker names a ticker of
\* the holdings the risk metrics were computed from.
C30_OneHoldingsSnapshot ==
    \A self \in Procs :
        LET pr == proc[self] IN
        pr.pc = "done" =>
            \A p \in Portfolios :
                pr.outcome[p] = "ok" =>
                    /\ pr.alert_holdings[p] = pr.risk_holdings[p]
                    /\ \A i \in RowsOf(alerts, pr.run, p) :
                          \/ alerts[i].ticker = NONE
                          \/ \E k \in 1..Len(pr.risk_holdings[p]) :
                                pr.risk_holdings[p][k].ticker = alerts[i].ticker

\* ------------------------------------------------------------------------
\* Properties of the health score and of the portfolio-wide rules inside one
\* generate_alerts call without a health_score argument (SpecAlerts)
\* ------------------------------------------------------------------------

\* C26: the unrealized-loss fraction of the health score is the number of
\* holdings with an available price whose latest close is under their cost
\* basis over the number of holdings with an available price (0 when no
\* holding has a price), so a holding without prices does not change it.
C26_LossRatioOfPriced ==
    (returned /\ arg_health = <<>>) =>
        LET lr == calc_unrealized_loss_ratio(arg_holdings, provider)
            priced == CountHoldings(Priced)
            inloss == CountHoldings(LAMBDA h : Priced(h) /\ Close(h) < h.buy_price)
        IN  IF priced = 0 THEN lr[1] = 0
            ELSE lr[1] * priced = inloss * lr[2]

\* C27: in calculate_risk_metrics without a market_ticker argument, the beta
\* of every ticker is computed against the index of that ticker: ^N225 for
\* a ticker ending in ".T" and ^GSPC for any other, whatever the order of
\* the holdings.
C27_BetaIndexPerTicker ==
    (returned /\ arg_health = <<>>) =>
        LET betas == beta_markets(arg_holdings, provider)
        IN  \A i \in 1..Len(betas) :
                betas[i].v = IF endswith_T(betas[i].k) THEN MARKET_INDEX_JP
                             ELSE MARKET_INDEX_US

CountType(types) == Cardinality({i \in 1..Len(result) : result[i].alert_type \in types})

\* C29: the list one generate_alerts call returns holds at most one alert
\* of W-04 or W-05, at most one W-07, at most one W-08 and at most one W-09.
C29_PortfolioAlertsOnce ==
    returned =>
        /\ CountType({"W-04", "W-05"}) <= 1
        /\ CountType({"W-07"}) <= 1
        /\ CountType({"W-08"}) <= 1
        /\ CountType({"W-09"}) <= 1

====
